---- MODULE Spec2Model ----
(***************************************************************************)
(* A model of the NSS -> NCS compiler core                                 *)
(* (src/src/pykotor/resource/formats/ncs/compiler/classes.py).             *)
(*                                                                         *)
(* The compiler is a recursive descent over an AST.  The model has one     *)
(* specification per compiler component:                                   *)
(*   SpecStruct  the struct table and the memoised size computation        *)
(*   SpecFunc    the function table and the instruction list               *)
(*   SpecRoot    CodeRoot.compile: include expansion, phases, entry point  *)
(*   SpecBlock   CodeBlock / statement / expression compilation            *)
(* The AST is the environment's input: every action draws the next        *)
(* top-level object, statement or expression from a bounded set.           *)
(***************************************************************************)
EXTENDS Integers, Sequences, FiniteSets, TLC

VARIABLES
    \* ---- struct table (CodeRoot.struct_map) and the last size query
    struct_map, last_size, registered,
    \* ---- function table (CodeRoot.function_map) and instruction list (NCS)
    function_map, instructions, next_id, fstatus, compiled, flast,
    \* ---- CodeRoot.compile
    objects, included, script_globals, others, pc, rstatus, root_entries, expansions,
    \* the positions in objects of the objects whose compile was called, in call order
    compile_order,
    \* for each object of `objects` the include expansion that brought it (0: the
    \* file being compiled), and for each expansion the one that brought its directive
    provenance,
    \* entry_index of CodeRoot.compile (-1: not yet set)
    entry_index,
    \* ---- IncludeScript._get_script: CodeRoot.library_lookup, the files of the lookup
    \* folders, IncludeScript.library, and the last script asked for
    library_lookup, files, library, script,
    \* ---- CodeBlock chain under compilation
    blocks, status, last,
    \* ---- a function body with the instructions compiled for it, and the stack
    \* machine that runs them
    emitted, machine

structVars == <<struct_map, last_size, registered>>
funcVars   == <<function_map, instructions, next_id, fstatus, compiled, flast>>
includeVars == <<library_lookup, files, library, script>>
rootVars   == <<objects, included, script_globals, others, pc, rstatus, root_entries, expansions,
                compile_order, entry_index, includeVars, provenance>>
blockVars  == <<blocks, status, last>>
runVars    == <<emitted, machine>>
vars       == <<structVars, funcVars, rootVars, blockVars, runVars>>

\* Python's None.
None   == "None"

(***************************************************************************)
(* Type system                                                             *)
(***************************************************************************)
\* DynamicDataType(datatype, struct_name)
DynamicDataType(b, s) == [builtin |-> b, struct |-> s]
INT    == DynamicDataType("INT", None)
FLOAT  == DynamicDataType("FLOAT", None)
DT_STRING == DynamicDataType("STRING", None)
VECTOR == DynamicDataType("VECTOR", None)
VOID   == DynamicDataType("VOID", None)
DT_ACTION == DynamicDataType("ACTION", None)
STRUCT(s) == DynamicDataType("STRUCT", s)

\* DynamicDataType.__eq__ for two DynamicDataType operands.
TypeEq(a, b) ==
    IF a.builtin = b.builtin
    THEN a.builtin # "STRUCT" \/ (a.builtin = "STRUCT" /\ a.struct = b.struct)
    ELSE FALSE

\* DataType.size(): bytes of a builtin kind (4 per storage unit).
DataType_size(b) ==
    IF b = "VECTOR" THEN 12 ELSE IF b = "VOID" THEN 0 ELSE 4

(***************************************************************************)
(* Struct table                                                            *)
(***************************************************************************)
StructNames == {"A", "B"}
MemberTypes == {INT, VECTOR} \cup {STRUCT(s) : s \in StructNames}

\* How many struct definitions one compilation holds.
MaxStructDefs == 3

\* Depth at which a self-containing struct stops the recursion (RecursionError).
RecursionLimit == 3

StructMember(t, i) == [datatype |-> t, identifier |-> i]

\* The member lists a StructDefinition may carry: none, a, or a and b.
MemberLists ==
    {<<>>}
    \cup {<<StructMember(t, "a")>> : t \in MemberTypes}
    \cup {<<StructMember(t1, "a"), StructMember(t2, "b")>> : t1, t2 \in MemberTypes}

\* Struct(identifier, members): _cached_size starts as None (the empty sequence
\* here, <<n>> once computed).  NoStruct stands for a name that is not a key of
\* struct_map.
Struct(members) == [present |-> TRUE, members |-> members, cached |-> <<>>]
NoStruct == [present |-> FALSE, members |-> <<>>, cached |-> <<>>]

SizeRes(m, v, e) == [map |-> m, val |-> v, err |-> e]

\* F applied to the value v: a local name for a value that is used more than once.
Bind(v, F(_)) == F(v)

RECURSIVE Struct_size(_, _, _)
RECURSIVE SumMemberSizes(_, _, _, _)

\* DynamicDataType.size(root)
DynamicDataType_size(map, t, fuel) ==
    IF t.builtin = "STRUCT"
    THEN IF t.struct = None THEN SizeRes(map, 0, "CompileError")
         ELSE IF ~map[t.struct].present THEN SizeRes(map, 0, "KeyError")
         ELSE Struct_size(map, t.struct, fuel)
    ELSE SizeRes(map, DataType_size(t.builtin), "none")

\* sum(member.size(root) for member in self.members), left to right from member k,
\* on the table as the earlier members' size queries left it.
SumMemberSizes(map, members, k, fuel) ==
    IF k > Len(members) THEN SizeRes(map, 0, "none")
    ELSE Bind(DynamicDataType_size(map, members[k].datatype, fuel), LAMBDA r :
            IF r.err # "none" THEN r
            ELSE Bind(SumMemberSizes(r.map, members, k + 1, fuel), LAMBDA rest :
                    IF rest.err # "none" THEN rest
                    ELSE SizeRes(rest.map, r.val + rest.val, "none")))

\* Struct.size(root): computed once, then answered from _cached_size.
Struct_size(map, name, fuel) ==
    IF fuel = 0 THEN SizeRes(map, 0, "RecursionError")
    ELSE IF map[name].cached # <<>> THEN SizeRes(map, map[name].cached[1], "none")
    ELSE Bind(SumMemberSizes(map, map[name].members, 1, fuel - 1), LAMBDA r :
            IF r.err # "none" THEN r
            ELSE SizeRes([r.map EXCEPT ![name].cached = <<r.val>>], r.val, "none"))

NoQuery == [name |-> None, val |-> 0, err |-> "none"]

\* StructDefinition.compile: an empty member list is a CompileError, otherwise the
\* name is bound to a fresh Struct (replacing any Struct bound to it before).
StructDefinition_compile(name, members) ==
    /\ registered < MaxStructDefs
    /\ registered' = registered + 1
    /\ IF Len(members) = 0
       THEN /\ struct_map' = struct_map
            /\ last_size' = [name |-> name, val |-> 0, err |-> "CompileError"]
       ELSE /\ struct_map' = [struct_map EXCEPT ![name] = Struct(members)]
            /\ last_size' = NoQuery
    /\ UNCHANGED <<funcVars, rootVars, blockVars, runVars>>

\* A size query on the struct type `name`, as made by get_scoped, scope_size,
\* child_offset and the copy instructions.
SizeQuery(name) ==
    /\ Bind(DynamicDataType_size(struct_map, STRUCT(name), RecursionLimit), LAMBDA r :
          /\ struct_map' = r.map
          /\ last_size' = [name |-> name, val |-> r.val, err |-> r.err])
    /\ UNCHANGED registered
    /\ UNCHANGED <<funcVars, rootVars, blockVars, runVars>>

\* Values the variables of the other components keep while one component runs.
IdleStruct == /\ struct_map = [n \in StructNames |-> NoStruct] /\ last_size = NoQuery
              /\ registered = 0
IdleFunc   == /\ function_map = <<>> /\ instructions = <<>> /\ next_id = 0
              /\ fstatus = "idle" /\ compiled = 0 /\ flast = <<>>
IdleRoot   == /\ objects = <<>> /\ included = <<>> /\ script_globals = <<>> /\ others = <<>>
              /\ library_lookup = <<>> /\ files = <<>> /\ library = {} /\ script = <<>>
              /\ compile_order = <<>> /\ entry_index = -1 /\ provenance = <<>>
              /\ pc = "idle" /\ rstatus = "idle" /\ root_entries = {} /\ expansions = 0
IdleRun    == emitted = <<>> /\ machine = <<>>
IdleBlock  == blocks = <<>> /\ status = "idle" /\ last = <<>> /\ IdleRun

InitStruct == IdleStruct /\ IdleFunc /\ IdleRoot /\ IdleBlock

NextStruct ==
    \/ \E n \in StructNames, ms \in MemberLists : StructDefinition_compile(n, ms)
    \/ \E n \in StructNames : SizeQuery(n)

SpecStruct == InitStruct /\ [][NextStruct]_vars

\* The sum of the current sizes of the members of struct `name`, recursively through
\* nested struct members, read off the member lists alone; -1 when it is undefined
\* (an unregistered or self-containing member type).
RECURSIVE MemberSum(_, _, _)
RECURSIVE MembersTotal(_, _, _, _)
MemberSum(map, name, fuel) ==
    IF fuel = 0 \/ ~map[name].present THEN -1
    ELSE MembersTotal(map, map[name].members, 1, fuel - 1)
MembersTotal(map, members, k, fuel) ==
    IF k > Len(members) THEN 0
    ELSE LET t == members[k].datatype
             s == IF t.builtin = "STRUCT" THEN MemberSum(map, t.struct, fuel)
                  ELSE DataType_size(t.builtin)
             rest == MembersTotal(map, members, k + 1, fuel)
         IN IF s < 0 \/ rest < 0 THEN -1 ELSE s + rest

\* C6: after any sequence of struct registrations (re-registrations included) and size
\* queries, a size query that succeeds reports the sum of the current sizes of the
\* struct's members, computed recursively.
C6_SizeIsCurrentMemberSum ==
    (last_size.name # None /\ last_size.err = "none")
        => last_size.val = MemberSum(struct_map, last_size.name, RecursionLimit)

\* A size query answered from a memo that was filled before a member struct was
\* registered again.
C6_StaleMemoReached ==
    /\ last_size.name # None /\ last_size.err = "none"
    /\ struct_map[last_size.name].cached = <<last_size.val>>
    /\ \E k \in 1..Len(struct_map[last_size.name].members) :
         LET t == struct_map[last_size.name].members[k].datatype
         IN t.builtin = "STRUCT" /\ struct_map[t.struct].present
            /\ struct_map[t.struct].cached = <<>>

(***************************************************************************)
(* Function table and instruction list                                     *)
(***************************************************************************)
FuncNames == {"f", "g", "h"}

\* How many top-level function objects one compilation holds.
MaxObjects == 4

\* A signature: return type and parameter types.
Signature(r, ps) == [return_type |-> r, parameters |-> ps]
Signatures == {Signature(VOID, <<>>), Signature(INT, <<>>), Signature(VOID, <<INT>>)}

\* The calls of a function body: none, or one call of a function.
CallLists == {<<>>} \cup {<<c>> : c \in FuncNames}

\* FunctionReference(instruction, definition); NoFunction stands for a name that
\* is not a key of function_map.
FunctionReference(i, proto, sig) ==
    [present |-> TRUE, instruction |-> i, prototype |-> proto, definition |-> sig]
NoFunction ==
    [present |-> FALSE, instruction |-> 0, prototype |-> FALSE,
     definition |-> Signature(VOID, <<>>)]

\* FunctionReference.is_prototype
is_prototype(ref) == ref.prototype

\* An instruction object.  id is its identity; jump is the id of the instruction it
\* jumps to (0: none); callee is the function a JSR was emitted for; body is the
\* function whose compiled body it belongs to and first marks the first instruction
\* of that body.
NCSInstruction(id, t, jump, callee, body, first) ==
    [id |-> id, ins_type |-> t, jump |-> jump, callee |-> callee,
     body |-> body, first |-> first]

\* An instruction not yet created: its type, jump target and callee.
Op(t, jump, callee) == [ins_type |-> t, jump |-> jump, callee |-> callee]

\* The instructions CodeRoot.compile_jsr and ExpressionStatement.compile emit for the
\* statement `c(args);`, one literal argument per parameter of c.
CallOps(fm, c) ==
    LET def == fm[c].definition
        reserve == IF TypeEq(def.return_type, INT) THEN <<Op("RSADDI", 0, None)>> ELSE <<>>
        args == [k \in 1..Len(def.parameters) |->
                    Op(IF TypeEq(def.parameters[k], INT) THEN "CONSTI" ELSE "CONSTF", 0, None)]
        pop == IF TypeEq(def.return_type, VOID) THEN <<>> ELSE <<Op("MOVSP", 0, None)>>
    IN reserve \o args \o <<Op("JSR", fm[c].instruction, c)>> \o pop

\* The statements of a body, each a call: FunctionCallExpression.compile raises
\* CompileError for a name that is not in function_map; what was emitted before stays.
RECURSIVE StatementOps(_, _, _)
StatementOps(fm, calls, k) ==
    IF k > Len(calls) THEN [ops |-> <<>>, err |-> "none"]
    ELSE IF ~fm[calls[k]].present THEN [ops |-> <<>>, err |-> "CompileError"]
    ELSE LET rest == StatementOps(fm, calls, k + 1)
         IN [ops |-> CallOps(fm, calls[k]) \o rest.ops, err |-> rest.err]

\* CodeBlock.compile of a function body followed by the append of retn: the
\* statements, the unwind of the block's scope, the shared RETN.
BodyOps(fm, calls) ==
    LET st == StatementOps(fm, calls, 1)
    IN IF st.err # "none" THEN st
       ELSE [ops |-> st.ops \o <<Op("MOVSP", 0, None), Op("RETN", 0, None)>>,
             err |-> "none"]

\* The instruction objects of `ops`, created with identities id0+1, id0+2, ...
Create(ops, id0, body) ==
    [k \in 1..Len(ops) |->
        NCSInstruction(id0 + k, ops[k].ins_type, ops[k].jump, ops[k].callee, body, k = 1)]

\* list.index(instruction): the position of the instruction object, counted from 0.
IndexOf(list, id) == (CHOOSE k \in 1..Len(list) : list[k].id = id) - 1

\* list[at:at] = ins, `at` counted from 0.
InsertAt(list, at, ins) ==
    SubSeq(list, 1, at) \o ins \o SubSeq(list, at + 1, Len(list))

\* A mutant of SpliceAfterStub: the body goes in at the stub's own index.
SpliceAtStub(list, stub, temp) == InsertAt(list, IndexOf(list, stub), temp)

\* FunctionDefinition._compile_function, the splice:
\*   stub_index = ncs.instructions.index(stub)
\*   ncs.instructions[stub_index + 1 : stub_index + 1] = temp.instructions
SpliceAfterStub(list, stub, temp) == InsertAt(list, IndexOf(list, stub) + 1, temp)

\* FunctionDefinition.is_matching_signature
is_matching_signature(self, prototype) ==
    /\ TypeEq(self.return_type, prototype.return_type)
    /\ Len(self.parameters) = Len(prototype.parameters)
    /\ \A i \in 1..Len(self.parameters) :
          TypeEq(self.parameters[i], prototype.parameters[i])

\* The compilation goes on until an error is raised or the objects are used up.
FuncRunning == fstatus = "ok" /\ compiled < MaxObjects

\* FunctionForwardDeclaration.compile
FunctionForwardDeclaration_compile(f, sig) ==
    /\ FuncRunning
    /\ compiled' = compiled + 1
    /\ flast' = [op |-> "declare", name |-> f, sig |-> sig, calls |-> <<>>]
    /\ IF function_map[f].present
       THEN /\ fstatus' = "CompileError"
            /\ UNCHANGED <<function_map, instructions, next_id>>
       ELSE /\ instructions' =
                 Append(instructions, NCSInstruction(next_id + 1, "NOP", 0, None, None, FALSE))
            /\ function_map' = [function_map EXCEPT ![f] = FunctionReference(next_id + 1, TRUE, sig)]
            /\ next_id' = next_id + 1
            /\ fstatus' = "ok"
    /\ UNCHANGED <<structVars, rootVars, blockVars, runVars>>

\* FunctionDefinition._compile_function: the definition of a prototyped function.
compile_function(f, sig, calls) ==
    IF ~is_matching_signature(sig, function_map[f].definition)
    THEN /\ fstatus' = "CompileError"
         /\ UNCHANGED <<function_map, instructions, next_id>>
    ELSE LET body == BodyOps(function_map, calls)
             temp == Create(body.ops, next_id, f)
         IN /\ next_id' = next_id + Len(body.ops)
            /\ function_map' = function_map
            /\ IF body.err # "none"
               THEN fstatus' = "CompileError" /\ instructions' = instructions
               ELSE /\ fstatus' = "ok"
                    /\ instructions' =
                         SpliceAfterStub(instructions, function_map[f].instruction, temp)

\* FunctionDefinition.compile
FunctionDefinition_compile(f, sig, calls) ==
    /\ FuncRunning
    /\ compiled' = compiled + 1
    /\ flast' = [op |-> "define", name |-> f, sig |-> sig, calls |-> calls]
    /\ IF function_map[f].present /\ ~is_prototype(function_map[f])
       THEN /\ fstatus' = "CompileError"
            /\ UNCHANGED <<function_map, instructions, next_id>>
       ELSE IF function_map[f].present /\ is_prototype(function_map[f])
       THEN compile_function(f, sig, calls)
       ELSE LET function_start ==
                    NCSInstruction(next_id + 1, "NOP", 0, None, None, FALSE)
                body == BodyOps(function_map, calls)
            IN /\ instructions' =
                    instructions \o <<function_start>> \o Create(body.ops, next_id + 1, f)
               /\ next_id' = next_id + 1 + Len(body.ops)
               /\ IF body.err # "none"
                  THEN fstatus' = "CompileError" /\ function_map' = function_map
                  ELSE /\ fstatus' = "ok"
                       /\ function_map' =
                            [function_map EXCEPT ![f] = FunctionReference(function_start.id, FALSE, sig)]
    /\ UNCHANGED <<structVars, rootVars, blockVars, runVars>>

InitFunc ==
    /\ IdleStruct /\ IdleRoot /\ IdleBlock
    /\ function_map = [f \in FuncNames |-> NoFunction]
    /\ instructions = <<>> /\ next_id = 0 /\ fstatus = "ok" /\ compiled = 0
    /\ flast = [op |-> "none", name |-> None, sig |-> Signature(VOID, <<>>), calls |-> <<>>]

NextFunc ==
    \/ \E f \in FuncNames, sig \in Signatures : FunctionForwardDeclaration_compile(f, sig)
    \/ \E f \in FuncNames, sig \in Signatures, calls \in CallLists :
          FunctionDefinition_compile(f, sig, calls)

SpecFunc == InitFunc /\ [][NextFunc]_vars

\* The positions of the list that hold the first instruction of a compiled body of f.
BodyStarts(f) ==
    {k \in 1..Len(instructions) : instructions[k].body = f /\ instructions[k].first}

\* The position of the instruction object `id` in the list, 0 when it is not there.
PositionOf(id) ==
    IF \E k \in 1..Len(instructions) : instructions[k].id = id
    THEN CHOOSE k \in 1..Len(instructions) : instructions[k].id = id
    ELSE 0

\* C2: a function that was forward-declared and then defined with an equal signature
\* compiles; its stub is still in the instruction list, is immediately followed by
\* the first instruction of the compiled body, and is the jump target of every JSR
\* emitted for the function, before or after the definition.
C2_SpliceKeepsStubAndTargets ==
    /\ \A f \in FuncNames :
          (function_map[f].present /\ function_map[f].prototype) =>
             /\ PositionOf(function_map[f].instruction) > 0
             /\ instructions[PositionOf(function_map[f].instruction)].ins_type = "NOP"
             /\ BodyStarts(f) # {} =>
                   (PositionOf(function_map[f].instruction) + 1) \in BodyStarts(f)
             /\ \A k \in 1..Len(instructions) :
                   (instructions[k].ins_type = "JSR" /\ instructions[k].callee = f)
                      => instructions[k].jump = function_map[f].instruction
    /\ (/\ flast.op = "define"
        /\ function_map[flast.name].present /\ function_map[flast.name].prototype
        /\ is_matching_signature(flast.sig, function_map[flast.name].definition)
        /\ \A k \in 1..Len(flast.calls) : function_map[flast.calls[k]].present)
          => (fstatus = "ok" /\ BodyStarts(flast.name) # {})

\* A prototyped function whose body was spliced in, called from a body compiled
\* before the definition and from a body compiled after it.
C2_CalledBeforeAndAfterDefinition ==
    \E f \in FuncNames :
        /\ function_map[f].present /\ function_map[f].prototype
        /\ fstatus = "ok" /\ Cardinality(BodyStarts(f)) = 1
        /\ \E b \in BodyStarts(f), j1, j2 \in 1..Len(instructions) :
              /\ instructions[j1].ins_type = "JSR" /\ instructions[j1].callee = f
              /\ instructions[j2].ins_type = "JSR" /\ instructions[j2].callee = f
              /\ instructions[j1].id < instructions[b].id
              /\ instructions[j2].id > instructions[b].id
              /\ instructions[j2].body # f

\* C3: a FunctionDefinition for a name that already has a compiled body, in-line or
\* spliced after a prototype, raises CompileError, so each function name has at
\* most one compiled body in the instruction list.
C3_AtMostOneBody ==
    \A f \in FuncNames : Cardinality(BodyStarts(f)) <= 1

(***************************************************************************)
(* CodeRoot.compile                                                        *)
(***************************************************************************)
\* How many top-level objects the root file holds.
MaxRootObjects == 3
\* How many include expansions are followed (a file that includes itself is
\* expanded again and again).  Every root file whose includes do not come back to a
\* file under expansion needs at most two expansions for each of its objects.
MaxExpand == 6

\* A top-level object: an IncludeScript of a file, a global (a variable declaration,
\* a variable initialization or a struct definition) or a function definition.  ok
\* tells whether the object's own compile raises no CompileError.
IncludeScript(file) == [kind |-> "include", name |-> file, ok |-> TRUE]
Global(ok) == [kind |-> "global", name |-> None, ok |-> ok]
Function(name, ok) == [kind |-> "function", name |-> name, ok |-> ok]

\* What the parser returns for the files of the library: a file without an entry
\* point, a file that defines main, a file that includes another, a file that
\* includes itself.  "missing" is in no library and no lookup folder.
Library ==
    [lib  |-> <<Function("helper", TRUE)>>,
     ent  |-> <<Function("main", TRUE)>>,
     nest |-> <<IncludeScript("lib"), Global(TRUE)>>,
     loop |-> <<IncludeScript("loop")>>,
     ping |-> <<IncludeScript("pong")>>,
     pong |-> <<IncludeScript("ping")>>]
IncludeFiles == DOMAIN Library \cup {"missing"}

EntryNames == {"main", "StartingConditional"}
RootFunctionNames == EntryNames \cup {"helper"}

TopLevelObjects ==
    {IncludeScript(f) : f \in IncludeFiles}
    \cup {Global(ok) : ok \in BOOLEAN}
    \cup {Function(n, ok) : n \in RootFunctionNames, ok \in BOOLEAN}

RootFiles == UNION {[1..n -> TopLevelObjects] : n \in 0..MaxRootObjects}

\* [obj for obj in self.objects if isinstance(obj, IncludeScript)], as positions.
IncludePositions(objs) == {k \in 1..Len(objs) : objs[k].kind = "include"}

Max(S) == CHOOSE x \in S : \A y \in S : y <= x

\* The list without its k-th element.
RemoveAt(list, k) == SubSeq(list, 1, k - 1) \o SubSeq(list, k + 1, Len(list))

\* A mutant of PrependObjects: the objects of the file go behind the list.
AppendObjects(objs, list) == list \o objs

\* IncludeScript.compile: root.objects = t.objects + root.objects
PrependObjects(objs, list) == objs \o list

\* Where the objects of the list come from: origin[k] is the expansion (its position
\* in `included`, 0 for the file being compiled) that brought objects[k], and
\* includer[j] the expansion that brought the directive the j-th expansion took.
Provenance(origin, includer) == [origin |-> origin, includer |-> includer]

\* The elements of the list that satisfy kind.
RECURSIVE OfKind(_, _)
OfKind(list, kinds) ==
    IF list = <<>> THEN <<>>
    ELSE (IF Head(list).kind \in kinds THEN <<Head(list)>> ELSE <<>>)
            \o OfKind(Tail(list), kinds)

\* A mutant of PositionsOfKind: the positions from the last to the first.
RECURSIVE PositionsBackwards(_, _, _)
PositionsBackwards(list, kinds, k) ==
    IF k > Len(list) THEN <<>>
    ELSE PositionsBackwards(list, kinds, k + 1)
            \o (IF list[k].kind \in kinds THEN <<k>> ELSE <<>>)

\* The positions, from the k-th on, of the elements OfKind keeps: the objects the
\* list comprehensions of CodeRoot.compile select, in the order they select them.
RECURSIVE PositionsOfKind(_, _, _)
PositionsOfKind(list, kinds, k) ==
    IF k > Len(list) THEN <<>>
    ELSE (IF list[k].kind \in kinds THEN <<k>> ELSE <<>>)
            \o PositionsOfKind(list, kinds, k + 1)

\* `for global_def in script_globals: global_def.compile(ncs, self)`: how many
\* compile calls are made, the raising one included.
RECURSIVE GlobalsCalled(_, _)
GlobalsCalled(list, k) ==
    IF k > Len(list) THEN Len(list)
    ELSE IF ~list[k].ok THEN k
    ELSE GlobalsCalled(list, k + 1)

\* One turn of the include loop of CodeRoot.compile with IncludeScript.compile: the
\* last include of the object list is taken out, recorded, and the objects of its
\* file are put in front of the list; MissingIncludeError when the file is not found.
IncludeScript_compile ==
    /\ pc = "includes" /\ rstatus = "running"
    /\ IncludePositions(objects) # {}
    /\ expansions < MaxExpand
    /\ LET k == Max(IncludePositions(objects))
           include == objects[k]
       IN /\ included' = Append(included, include)
          /\ expansions' = expansions + 1
          /\ IF include.name \in DOMAIN Library
             THEN /\ objects' = PrependObjects(Library[include.name], RemoveAt(objects, k))
                  /\ provenance' =
                        Provenance(PrependObjects(
                                      [i \in 1..Len(Library[include.name]) |-> Len(included')],
                                      RemoveAt(provenance.origin, k)),
                                   Append(provenance.includer, provenance.origin[k]))
                  /\ UNCHANGED <<pc, rstatus>>
             ELSE /\ objects' = RemoveAt(objects, k)
                  /\ provenance' =
                        Provenance(RemoveAt(provenance.origin, k),
                                   Append(provenance.includer, provenance.origin[k]))
                  /\ rstatus' = "MissingIncludeError" /\ pc' = "done"
    /\ UNCHANGED <<script_globals, others, root_entries, compile_order>>
    /\ UNCHANGED <<entry_index, includeVars>>
    /\ UNCHANGED <<structVars, funcVars, blockVars, runVars>>

\* CodeRoot.compile after the include loop: the partition of the objects and the
\* compilation of the globals, in order, until one raises.
CompileGlobals ==
    /\ pc = "includes" /\ rstatus = "running"
    /\ IncludePositions(objects) = {}
    /\ script_globals' = OfKind(objects, {"global"})
    /\ others' = OfKind(objects, {"function"})
    /\ IF \E k \in 1..Len(script_globals') : ~script_globals'[k].ok
       THEN rstatus' = "CompileError" /\ pc' = "done"
       ELSE rstatus' = rstatus /\ pc' = "others"
    /\ compile_order' = SubSeq(PositionsOfKind(objects, {"global"}, 1), 1,
                               GlobalsCalled(script_globals', 1))
    /\ UNCHANGED <<objects, included, root_entries, expansions>>
    /\ UNCHANGED <<entry_index, includeVars, provenance>>
    /\ UNCHANGED <<structVars, funcVars, blockVars, runVars>>

\* for obj in others: obj.compile(ncs, self), from the k-th on: the function names
\* registered and the error raised.  A definition whose body raises registers
\* nothing; a second definition of a name raises CompileError.
RECURSIVE CompileOthersFrom(_, _, _)
CompileOthersFrom(list, k, keys) ==
    IF k > Len(list) THEN [keys |-> keys, err |-> "none", called |-> Len(list)]
    ELSE IF list[k].name \in keys \/ ~list[k].ok
    THEN [keys |-> keys, err |-> "CompileError", called |-> k]
    ELSE CompileOthersFrom(list, k + 1, keys \cup {list[k].name})

CompileOthers ==
    /\ pc = "others" /\ rstatus = "running"
    /\ LET r == CompileOthersFrom(others, 1, root_entries)
       IN /\ root_entries' = r.keys
          /\ IF r.err # "none"
             THEN rstatus' = r.err /\ pc' = "done"
             ELSE rstatus' = rstatus /\ pc' = "entry"
          /\ compile_order' =
                compile_order \o SubSeq(PositionsOfKind(objects, {"function"}, 1), 1, r.called)
    /\ UNCHANGED <<objects, included, script_globals, others, expansions>>
    /\ UNCHANGED <<entry_index, includeVars, provenance>>
    /\ UNCHANGED <<structVars, funcVars, blockVars, runVars>>

\* A mutant of has_entry_point: only main counts.
has_main(keys) == "main" \in keys

\* "main" in self.function_map, elif "StartingConditional" in self.function_map
has_entry_point(keys) == "main" \in keys \/ "StartingConditional" \in keys

\* The end of CodeRoot.compile: the entry stub, or EntryPointError.
EntryPoint ==
    /\ pc = "entry" /\ rstatus = "running"
    /\ pc' = "done"
    /\ rstatus' = IF has_entry_point(root_entries) THEN "ok" ELSE "EntryPointError"
    /\ UNCHANGED <<objects, included, script_globals, others, root_entries, expansions,
                   compile_order>>
    /\ UNCHANGED <<entry_index, includeVars, provenance>>
    /\ UNCHANGED <<structVars, funcVars, blockVars, runVars>>

InitRoot ==
    /\ IdleStruct /\ IdleFunc /\ IdleBlock
    /\ objects \in RootFiles
    /\ included = <<>> /\ script_globals = <<>> /\ others = <<>>
    /\ pc = "includes" /\ rstatus = "running" /\ root_entries = {} /\ expansions = 0
    /\ library_lookup = <<>> /\ files = <<>> /\ library = {} /\ script = <<>>
    /\ compile_order = <<>> /\ entry_index = -1
    /\ provenance = Provenance([k \in 1..Len(objects) |-> 0], <<>>)

NextRoot ==
    \/ IncludeScript_compile
    \/ CompileGlobals
    \/ CompileOthers
    \/ EntryPoint

SpecRoot == InitRoot /\ [][NextRoot]_vars

\* CodeRoot.compile runs to its end or to the exception it raises: no step of it
\* waits for anything.
FairRoot == SpecRoot /\ WF_vars(NextRoot)

\* ---- IncludeScript._get_script
\* The folders of library_lookup and how many of them a compilation is given.
Folders == {"a", "b"}
MaxLookup == 2
\* The names an #include is written with, and str.lower of each.
IncludeNames == {"k_inc", "K_INC"}
lower(name) == IF name = "K_INC" THEN "k_inc" ELSE name

\* What `folder / f"{name}.nss"` is in the file system: no file, a file that can be
\* read, a file whose read raises.
FileStates == {"absent", "file", "unreadable"}

\* The script found: where it comes from ("file": folder and name, "library": key)
\* or the error raised.
Script(file, err, origin, at, key) ==
    [file |-> file, err |-> err, origin |-> origin, at |-> at, key |-> key]

\* `for folder in root.library_lookup`, from the k-th folder: the position of the
\* first folder that holds the file (0: none), and whether its read raised.
RECURSIVE SearchFolders(_, _)
SearchFolders(file, k) ==
    IF k > Len(library_lookup) THEN [at |-> 0, err |-> "none"]
    ELSE IF files[<<library_lookup[k], file>>] = "file" THEN [at |-> k, err |-> "none"]
    ELSE IF files[<<library_lookup[k], file>>] = "unreadable"
    THEN [at |-> k, err |-> "MissingIncludeError"]
    ELSE SearchFolders(file, k + 1)

\* `not root.library_lookup or all(lookup_path for lookup_path in root.library_lookup
\*  if isinstance(lookup_path, Path))`: every entry of library_lookup is a
\* CaseAwarePath made by CodeRoot.__init__, and a path object is true.
case_sensitive == Len(library_lookup) = 0 \/ \A k \in 1..Len(library_lookup) : TRUE

\* `self.file.value if case_sensitive else self.file.value.lower()`
include_filename(file) == IF case_sensitive THEN file ELSE lower(file)

\* IncludeScript._get_script
get_script(file) ==
    /\ script = <<>>
    /\ Bind(SearchFolders(file, 1), LAMBDA found :
          script' = IF found.err # "none" THEN Script(file, found.err, None, found.at, None)
                    ELSE IF found.at > 0 THEN Script(file, "none", "file", found.at, None)
                    ELSE IF include_filename(file) \in library
                    THEN Script(file, "none", "library", 0, include_filename(file))
                    ELSE Script(file, "MissingIncludeError", None, 0, include_filename(file)))
    /\ UNCHANGED <<objects, included, script_globals, others, pc, rstatus, root_entries,
                   expansions, compile_order, entry_index, library_lookup, files, library,
                   provenance>>
    /\ UNCHANGED <<structVars, funcVars, blockVars, runVars>>

\* CodeRoot.__init__ with its library_lookup and library, in some file system.
InitInclude ==
    /\ IdleStruct /\ IdleFunc /\ IdleBlock
    /\ objects = <<>> /\ included = <<>> /\ script_globals = <<>> /\ others = <<>>
    /\ pc = "idle" /\ rstatus = "idle" /\ root_entries = {} /\ expansions = 0
    /\ compile_order = <<>> /\ entry_index = -1 /\ provenance = <<>>
    /\ library_lookup \in UNION {[1..n -> Folders] : n \in 0..MaxLookup}
    /\ files \in [Folders \X IncludeNames -> FileStates]
    /\ library \in SUBSET IncludeNames
    /\ script = <<>>

NextInclude == \E file \in IncludeNames : get_script(file)

SpecInclude == InitInclude /\ [][NextInclude]_vars

\* ---- The instruction list CodeRoot.compile builds
\* How many global-scope objects the file holds.
MaxGlobals == 1
\* A global that emits one instruction (int g;) and one that emits none (a struct
\* definition).
GlobalVariableDeclaration == [kind |-> "global", name |-> "variable", ok |-> TRUE]
StructDefinition == [kind |-> "global", name |-> "struct", ok |-> TRUE]
GlobalLists ==
    UNION {[1..n -> {GlobalVariableDeclaration, StructDefinition}] : n \in 0..MaxGlobals}

LayoutNames == {"main", "StartingConditional", "helper"}
LayoutSignatures == {Signature(VOID, <<>>), Signature(INT, <<>>)}
LayoutCallLists == {<<>>, <<"helper">>}

\* The instructions the globals emit: RSADDI for a variable, nothing for a struct.
RECURSIVE GlobalOps(_)
GlobalOps(list) ==
    IF list = <<>> THEN <<>>
    ELSE (IF Head(list).name = "variable" THEN <<Op("RSADDI", 0, None)>> ELSE <<>>)
            \o GlobalOps(Tail(list))

\* `if script_globals:` of CodeRoot.compile: the globals are compiled, SAVEBP is
\* added, and entry_index is the length of the instruction list.
CompileGlobalsOps(list) ==
    /\ pc = "globals"
    /\ script_globals' = list
    /\ Bind(IF list = <<>> THEN <<>> ELSE GlobalOps(list) \o <<Op("SAVEBP", 0, None)>>,
            LAMBDA ops :
              /\ instructions' = Create(ops, next_id, "#globals")
              /\ next_id' = next_id + Len(ops)
              /\ entry_index' = Len(ops))
    /\ pc' = "others"
    /\ UNCHANGED <<function_map, fstatus, compiled, flast>>
    /\ UNCHANGED <<objects, included, others, rstatus, root_entries, expansions,
                   compile_order, includeVars, provenance>>
    /\ UNCHANGED <<structVars, blockVars, runVars>>

\* A mutant of EntryOps: StartingConditional takes precedence over main.
EntryOpsConditionalFirst(fm) ==
    IF fm["StartingConditional"].present
    THEN <<Op("RSADDI", 0, None),
           Op("JSR", fm["StartingConditional"].instruction, "StartingConditional"),
           Op("RETN", 0, None)>>
    ELSE IF fm["main"].present
    THEN <<Op("JSR", fm["main"].instruction, "main"), Op("RETN", 0, None)>>
    ELSE <<>>

\* The instructions the end of CodeRoot.compile adds at entry_index, in the order
\* the successive `ncs.add(..., index=entry_index)` leave them; none: no entry point.
EntryOps(fm) ==
    IF fm["main"].present
    THEN <<Op("JSR", fm["main"].instruction, "main"), Op("RETN", 0, None)>>
    ELSE IF fm["StartingConditional"].present
    THEN <<Op("RSADDI", 0, None),
           Op("JSR", fm["StartingConditional"].instruction, "StartingConditional"),
           Op("RETN", 0, None)>>
    ELSE <<>>

\* The end of CodeRoot.compile on the instruction list.
CodeRoot_compile_entry ==
    /\ pc = "others" /\ fstatus = "ok"
    /\ pc' = "done"
    /\ Bind(EntryOps(function_map), LAMBDA ops :
          /\ rstatus' = IF ops = <<>> THEN "EntryPointError" ELSE "ok"
          /\ instructions' = InsertAt(instructions, entry_index, Create(ops, next_id, "#entry"))
          /\ next_id' = next_id + Len(ops))
    /\ UNCHANGED <<function_map, fstatus, compiled, flast>>
    /\ UNCHANGED <<objects, included, script_globals, others, root_entries, expansions,
                   compile_order, entry_index, includeVars, provenance>>
    /\ UNCHANGED <<structVars, blockVars, runVars>>

InitLayout ==
    /\ IdleStruct /\ IdleBlock
    /\ objects = <<>> /\ included = <<>> /\ script_globals = <<>> /\ others = <<>>
    /\ pc = "globals" /\ rstatus = "running" /\ root_entries = {} /\ expansions = 0
    /\ compile_order = <<>> /\ entry_index = -1 /\ provenance = <<>>
    /\ library_lookup = <<>> /\ files = <<>> /\ library = {} /\ script = <<>>
    /\ function_map = [f \in LayoutNames |-> NoFunction]
    /\ instructions = <<>> /\ next_id = 0 /\ fstatus = "ok" /\ compiled = 0
    /\ flast = [op |-> "none", name |-> None, sig |-> Signature(VOID, <<>>), calls |-> <<>>]

NextLayout ==
    \/ \E list \in GlobalLists : CompileGlobalsOps(list)
    \/ \E f \in LayoutNames, sig \in LayoutSignatures :
          pc = "others" /\ FunctionForwardDeclaration_compile(f, sig)
    \/ \E f \in LayoutNames, sig \in LayoutSignatures, calls \in LayoutCallLists :
          pc = "others" /\ FunctionDefinition_compile(f, sig, calls)
    \/ CodeRoot_compile_entry

SpecLayout == InitLayout /\ [][NextLayout]_vars

\* Every object of the expanded list compiles: every include was found, no object
\* raises on its own, and no function name is defined twice.
AllObjectsCompile ==
    /\ \A k \in 1..Len(included) : included[k].name \in DOMAIN Library
    /\ \A k \in 1..Len(objects) : objects[k].ok
    /\ \A j, k \in 1..Len(objects) :
          (j # k /\ objects[j].kind = "function" /\ objects[k].kind = "function")
             => objects[j].name # objects[k].name

\* C4: CodeRoot.compile raises EntryPointError exactly when every top-level object,
\* those brought in by include expansion too, compiled without error and neither main
\* nor StartingConditional is a function of the expanded file; an included file
\* without an entry point does not cause it when the root has one.
C4_EntryPointErrorIff ==
    pc = "done" =>
       /\ (rstatus = "EntryPointError") <=>
             (/\ AllObjectsCompile
              /\ ~\E k \in 1..Len(objects) :
                    objects[k].kind = "function" /\ objects[k].name \in EntryNames)
       /\ (/\ AllObjectsCompile
           /\ \E k \in 1..Len(objects) :
                 objects[k].kind = "function" /\ objects[k].name \in EntryNames)
             => rstatus = "ok"

\* A root with an entry point that pulled in, through a nested include, a file
\* without one, and compiled.
C4_IncludedFileWithoutEntry ==
    /\ pc = "done" /\ rstatus = "ok"
    /\ \E k \in 1..Len(included) : included[k].name = "lib"
    /\ "helper" \in root_entries
    /\ "StartingConditional" \in root_entries /\ "main" \notin root_entries

(***************************************************************************)
(* Scopes: CodeBlock, ScopedValue, get_scoped, FieldAccess                 *)
(***************************************************************************)
\* The structs registered when a function body is compiled, their sizes already
\* computed once:  struct T { int p; float q; };  struct S { int a; T t; vector b; };
BlockStructs ==
    [struct_map_key \in {"S", "T"} |->
        IF struct_map_key = "T"
        THEN [present |-> TRUE, cached |-> <<8>>,
              members |-> <<StructMember(INT, "p"), StructMember(FLOAT, "q")>>]
        ELSE [present |-> TRUE, cached |-> <<24>>,
              members |-> <<StructMember(INT, "a"), StructMember(STRUCT("T"), "t"),
                            StructMember(VECTOR, "b")>>]]

\* data_type.size(root) on the struct table of the compilation.
size(t) == DynamicDataType_size(struct_map, t, RecursionLimit).val

ScopedValue(identifier, data_type, is_const) ==
    [identifier |-> identifier, data_type |-> data_type, is_const |-> is_const]

\* CodeRoot._global_scope of the compilation:
\*   const struct S ks;  const int k;  int g;      (the last declared comes first)
GlobalScope ==
    <<ScopedValue("g", INT, FALSE), ScopedValue("k", INT, TRUE),
      ScopedValue("ks", STRUCT("S"), TRUE)>>

\* A CodeBlock under compilation.  kind names the statement the block belongs to;
\* brk and cont are the break_instruction and continue_instruction its statements
\* are compiled with, as the index in the chain of the block of the loop or switch
\* that owns the instruction (0: None).  declared lists the declarations in the order
\* they were compiled, entry is the temp_stack of the parent when the
\* statement of the block began to compile, held the size of the value a switch
\* keeps on the stack, returned whether the statement loop of compile has left
\* through a return statement.
CodeBlock(kind, brk, cont) ==
    [kind |-> kind, scope |-> <<>>, temp_stack |-> 0, break_scope |-> FALSE,
     brk |-> brk, cont |-> cont, declared |-> <<>>, entry |-> 0, held |-> 0,
     returned |-> FALSE]

\* A mutant of add_scoped: the new value goes to the end of the list.
add_scoped_last(scope, v) == Append(scope, v)

\* CodeBlock.add_scoped: self.scope.insert(0, ScopedValue(...))
add_scoped(scope, v) == <<v>> \o scope

RECURSIVE SumSizes(_, _)
SumSizes(scope, k) ==
    IF k > Len(scope) THEN 0 ELSE size(scope[k].data_type) + SumSizes(scope, k + 1)

\* CodeBlock.scope_size
scope_size(b) == SumSizes(b.scope, 1)

\* CodeBlock.full_scope_size of the i-th block of the chain (its parent is i - 1).
RECURSIVE full_scope_size(_, _)
full_scope_size(chain, i) ==
    IF i = 0 THEN 0 ELSE scope_size(chain[i]) + full_scope_size(chain, i - 1)

\* CodeBlock.break_scope_size of the i-th block of the chain.
RECURSIVE break_scope_size(_, _)
break_scope_size(chain, i) ==
    scope_size(chain[i])
      + (IF i > 1 /\ ~chain[i - 1].break_scope THEN break_scope_size(chain, i - 1) ELSE 0)

GetScopedResult(is_global, datatype, offset, is_const) ==
    [err |-> "none", is_global |-> is_global, datatype |-> datatype,
     offset |-> offset, is_const |-> is_const]
ScopedError == [err |-> "CompileError", is_global |-> FALSE, datatype |-> VOID,
                offset |-> 0, is_const |-> FALSE]

\* The walk `for scoped in scope: offset -= size; if identifier matches: break`.
\* found = FALSE carries the offset after the whole list.
RECURSIVE ScanScope(_, _, _, _)
ScanScope(scope, k, identifier, offset) ==
    IF k > Len(scope) THEN [found |-> FALSE, offset |-> offset, at |-> 0]
    ELSE Bind(offset - size(scope[k].data_type), LAMBDA o :
            IF scope[k].identifier = identifier
            THEN [found |-> TRUE, offset |-> o, at |-> k]
            ELSE ScanScope(scope, k + 1, identifier, o))

\* CodeRoot.get_scoped
CodeRoot_get_scoped(identifier) ==
    Bind(ScanScope(GlobalScope, 1, identifier, 0), LAMBDA r :
       IF r.found
       THEN GetScopedResult(TRUE, GlobalScope[r.at].data_type, r.offset,
                            GlobalScope[r.at].is_const)
       ELSE ScopedError)

\* CodeBlock.get_scoped on the i-th block of the chain; offset0 is the offset
\* argument (None at the first call, which the caller passes as 0).
RECURSIVE CodeBlock_get_scoped(_, _, _, _)
CodeBlock_get_scoped(chain, i, identifier, offset0) ==
    Bind(ScanScope(chain[i].scope, 1, identifier, offset0 - chain[i].temp_stack), LAMBDA r :
       IF r.found
       THEN GetScopedResult(FALSE, chain[i].scope[r.at].data_type, r.offset,
                            chain[i].scope[r.at].is_const)
       ELSE IF i > 1 THEN CodeBlock_get_scoped(chain, i - 1, identifier, r.offset)
       ELSE CodeRoot_get_scoped(identifier))

\* Struct.child_offset: the sizes of the members before the one looked up; -1 stands
\* for the CompileError of an unknown member.
RECURSIVE child_offset(_, _, _)
child_offset(members, k, identifier) ==
    IF k > Len(members) THEN -1
    ELSE IF members[k].identifier = identifier THEN 0
    ELSE Bind(child_offset(members, k + 1, identifier), LAMBDA rest :
            IF rest < 0 THEN -1 ELSE size(members[k].datatype) + rest)

\* Struct.child_type; called only after child_offset found the member.
child_type(members, identifier) ==
    members[CHOOSE k \in 1..Len(members) :
               /\ members[k].identifier = identifier
               /\ \A j \in 1..(k - 1) : members[j].identifier # identifier].datatype

\* A mutant of VectorComponent: y and z are swapped.
VectorComponentSwapped(label) ==
    IF label = "x" THEN 0 ELSE IF label = "y" THEN 8 ELSE IF label = "z" THEN 4 ELSE -1

\* The offset FieldAccess.get_scoped adds for a component of a vector; -1 stands for
\* the CompileError of an unknown component.
VectorComponent(label) ==
    IF label = "x" THEN 0 ELSE IF label = "y" THEN 4 ELSE IF label = "z" THEN 8 ELSE -1

\* The loop of FieldAccess.get_scoped over identifiers[k..], from the result so far.
RECURSIVE FieldAccess_walk(_, _, _)
FieldAccess_walk(path, k, r) ==
    IF k > Len(path) THEN r
    ELSE IF r.datatype.builtin = "VECTOR"
    THEN Bind(VectorComponent(path[k]), LAMBDA component :
            IF component < 0 THEN ScopedError
            ELSE FieldAccess_walk(path, k + 1,
                    GetScopedResult(r.is_global, FLOAT, r.offset + component, r.is_const)))
    ELSE IF r.datatype.builtin = "STRUCT"
    THEN Bind(struct_map[r.datatype.struct].members, LAMBDA members :
         Bind(child_offset(members, 1, path[k]), LAMBDA child :
            IF child < 0 THEN ScopedError
            ELSE FieldAccess_walk(path, k + 1,
                    GetScopedResult(r.is_global, child_type(members, path[k]),
                                    r.offset + child, r.is_const))))
    ELSE ScopedError

\* FieldAccess.get_scoped(block, root), block being the last of the chain.
FieldAccess_get_scoped(chain, path) ==
    IF Len(path) = 0 THEN ScopedError
    ELSE Bind(CodeBlock_get_scoped(chain, Len(chain), path[1], 0), LAMBDA first :
            IF first.err # "none" THEN first ELSE FieldAccess_walk(path, 2, first))

(***************************************************************************)
(* Expressions                                                             *)
(***************************************************************************)
\* An expression of the AST: its class (kind), and what the class holds of a name,
\* an operator, a FieldAccess path and sub-expressions.
Expr(kind, name, path, args) == [kind |-> kind, name |-> name, path |-> path, args |-> args]

\* No expression: `return;`, and the default of a parameter that has none.
NoValue == Expr("none", None, <<>>, <<>>)

\* IntExpression(value)
IntLiteral(value) == Expr("int", value, <<>>, <<>>)

\* A declaration as function_map holds it: the return type, the data types of the
\* parameters and their default expressions (NoValue: no default).
FunctionForwardDeclaration(return_type, parameters, defaults) ==
    [return_type |-> return_type, parameters |-> parameters, defaults |-> defaults]

\* The engine routines of the compilation (root.functions): int GetN(),
\* int Abs(int), void ActionDoCommand(action).
EngineFunctions ==
    [GetN |-> Signature(INT, <<>>),
     Abs |-> Signature(INT, <<INT>>),
     ActionDoCommand |-> Signature(VOID, <<DT_ACTION>>)]

\* The function table when the body is compiled: the definitions int geti() and
\* void put(int), and the prototypes void Foo(int a, int b = 5) and
\* void Bar(int a = 5, int b), which FunctionForwardDeclaration.compile registers
\* without a look at the order of the defaults.
BlockFunctions ==
    [geti |-> FunctionReference(1, FALSE, FunctionForwardDeclaration(INT, <<>>, <<>>)),
     put  |-> FunctionReference(2, FALSE, FunctionForwardDeclaration(VOID, <<INT>>, <<NoValue>>)),
     Foo  |-> FunctionReference(3, TRUE,
                 FunctionForwardDeclaration(VOID, <<INT, INT>>, <<NoValue, IntLiteral("5")>>)),
     Bar  |-> FunctionReference(4, TRUE,
                 FunctionForwardDeclaration(VOID, <<INT, INT>>, <<IntLiteral("5"), NoValue>>))]

\* The operand types of the binary operator + and of the unary operator -
\* (the compatibility lists the parser hands to the expression).
AdditionMapping ==
    {<<"INT", "INT", "INT">>, <<"INT", "FLOAT", "FLOAT">>, <<"FLOAT", "INT", "FLOAT">>,
     <<"FLOAT", "FLOAT", "FLOAT">>, <<"VECTOR", "VECTOR", "VECTOR">>}
NegationMapping == {"INT", "FLOAT"}

\* The operand types each compound assignment accepts, <<variable, expression>>.
Arithmetic == {<<"INT", "INT">>, <<"INT", "FLOAT">>, <<"FLOAT", "FLOAT">>, <<"FLOAT", "INT">>}
CompoundMapping(op) ==
    IF op = "+=" THEN Arithmetic \cup {<<"STRING", "STRING">>, <<"VECTOR", "VECTOR">>}
    ELSE IF op = "-=" THEN Arithmetic \cup {<<"VECTOR", "VECTOR">>}
    ELSE IF op \in {"*=", "/="} THEN Arithmetic \cup {<<"VECTOR", "FLOAT">>}
    ELSE {<<"INT", "INT">>}
CompoundOps == {"+=", "-=", "*=", "/=", "%=", "&=", "|=", "^=", "<<=", ">>=", ">>>="}

\* The result of compiling an expression in the last block of the chain: the type
\* returned, the block's temp_stack afterwards, the error raised, and the stores
\* emitted to const variables ("assign": by an assignment form, "init": by an
\* initializer).
Compiled(t, ts, writes) == [type |-> t, ts |-> ts, err |-> "none", writes |-> writes]
Raised(e) == [type |-> VOID, ts |-> 0, err |-> e, writes |-> {}]

\* The chain with the temp_stack of its last block set.
WithTemp(chain, ts) == [chain EXCEPT ![Len(chain)].temp_stack = ts]

\* `if block.temp_stack == before: block.temp_stack += size`
Accounted(before, r) == IF r.ts = before THEN r.ts + size(r.type) ELSE r.ts

\* A mutant of ConstViolation: the plain assignment never refuses.
ConstViolationIgnored(is_const, allow_const) == FALSE

\* `if is_const and not allow_const` of Assignment.compile
ConstViolation(is_const, allow_const) == is_const /\ ~allow_const

\* The stores an assignment to a target emits, as far as const targets go.
StoreTo(scoped, allow_const) ==
    IF scoped.is_const THEN {IF allow_const THEN "init" ELSE "assign"} ELSE {}

RECURSIVE Expression_compile(_, _, _)
RECURSIVE EngineArgs(_, _, _, _, _, _, _)
RECURSIVE JsrArgs(_, _, _, _, _, _, _)

\* Assignment.compile(ncs, root, block, allow_const)
Assignment_compile(chain, ts, e, allow_const) ==
    Bind(Expression_compile(chain, ts, e.args[1]), LAMBDA r :
       IF r.err # "none" THEN r
       ELSE Bind(Accounted(ts, r), LAMBDA ts1 :
            Bind(FieldAccess_get_scoped(WithTemp(chain, ts1), e.path), LAMBDA scoped :
               IF scoped.err # "none" THEN Raised(scoped.err)
               ELSE IF ConstViolation(scoped.is_const, allow_const) THEN Raised("CompileError")
               ELSE IF ~TypeEq(r.type, scoped.datatype) THEN Raised("CompileError")
               ELSE Compiled(r.type, ts1, r.writes \cup StoreTo(scoped, allow_const)))))

\* The end of a compound assignment: the operand types are looked up and the two
\* operands give way to the result.
CompoundStore(scoped, ts1, r, op) ==
    IF r.err # "none" THEN r
    ELSE IF <<scoped.datatype.builtin, r.type.builtin>> \notin CompoundMapping(op)
    THEN Raised("CompileError")
    ELSE Compiled(scoped.datatype,
                  Accounted(ts1, r) - size(scoped.datatype) - size(r.type)
                     + size(scoped.datatype),
                  r.writes \cup StoreTo(scoped, FALSE))

\* AdditionAssignment.compile and the ten other compound assignments, which differ
\* in the operand types they accept.
CompoundAssignment_compile(chain, ts, e) ==
    Bind(FieldAccess_get_scoped(WithTemp(chain, ts), e.path), LAMBDA scoped :
       IF scoped.err # "none" THEN Raised(scoped.err)
       ELSE IF scoped.is_const THEN Raised("CompileError")
       ELSE Bind(ts + size(scoped.datatype), LAMBDA ts1 :
               CompoundStore(scoped, ts1, Expression_compile(chain, ts1, e.args[1]), e.name)))

\* Prefix/Postfix Increment/Decrement Expression.compile
IncDec_compile(chain, ts, e) ==
    Bind(FieldAccess_get_scoped(WithTemp(chain, ts), e.path), LAMBDA read :
       IF read.err # "none" THEN Raised(read.err)
       ELSE IF ~TypeEq(read.datatype, INT) THEN Raised("CompileError")
       ELSE Bind(FieldAccess_get_scoped(
                    WithTemp(chain, IF e.kind \in {"postinc", "postdec"} THEN ts + 4 ELSE ts),
                    e.path),
                 LAMBDA scoped :
                    IF scoped.is_const THEN Raised("CompileError")
                    ELSE Compiled(scoped.datatype, ts, StoreTo(scoped, FALSE))))

\* The end of BinaryOperatorExpression.compile: the compatibility list is searched
\* for the operand types and the two operands give way to the result.
BinaryResult(r1, r2, ts2) ==
    Bind({x \in AdditionMapping : x[1] = r1.type.builtin /\ x[2] = r2.type.builtin},
         LAMBDA hit :
            IF hit = {} THEN Raised("CompileError")
            ELSE Bind(DynamicDataType((CHOOSE x \in hit : TRUE)[3], None), LAMBDA result :
                    Compiled(result, ts2 - (size(r1.type) + size(r2.type) - size(result)),
                             r1.writes \cup r2.writes)))

\* BinaryOperatorExpression.compile with the compatibility list of +.
BinaryOperatorExpression_compile(chain, ts, e) ==
    Bind(Expression_compile(chain, ts, e.args[1]), LAMBDA r1 :
       IF r1.err # "none" THEN r1
       ELSE Bind(Accounted(ts, r1), LAMBDA ts1 :
            Bind(Expression_compile(chain, ts1, e.args[2]), LAMBDA r2 :
               IF r2.err # "none" THEN r2 ELSE BinaryResult(r1, r2, Accounted(ts1, r2)))))

\* UnaryOperatorExpression.compile (-) and LogicalNotExpression.compile (!)
UnaryOperatorExpression_compile(chain, ts, e) ==
    Bind(Expression_compile(chain, ts, e.args[1]), LAMBDA r :
       IF r.err # "none" THEN r
       ELSE IF e.kind = "unary" /\ r.type.builtin \notin NegationMapping THEN Raised("CompileError")
       ELSE IF e.kind = "not" /\ ~TypeEq(r.type, INT) THEN Raised("CompileError")
       ELSE Compiled(IF e.kind = "not" THEN INT ELSE r.type, r.ts + 4 - 4, r.writes))

\* TernaryConditionalExpression.compile
TernaryConditionalExpression_compile(chain, ts, e) ==
    Bind(Expression_compile(chain, ts, e.args[1]), LAMBDA c :
       IF c.err # "none" THEN c
       ELSE IF ~TypeEq(c.type, INT) THEN Raised("CompileError")
       ELSE Bind(Expression_compile(chain, ts, e.args[2]), LAMBDA t :
               IF t.err # "none" THEN t
               ELSE Bind(Expression_compile(chain, ts, e.args[3]), LAMBDA f :
                       IF f.err # "none" THEN f
                       ELSE IF ~TypeEq(t.type, f.type) THEN Raised("CompileError")
                       ELSE Compiled(t.type, ts + size(t.type),
                                     c.writes \cup t.writes \cup f.writes))))

\* What the argument loops return: the temp_stack, the bytes the arguments take
\* (this_stack, offset), the error raised, the const stores.
ArgsDone(ts, bytes, err, writes) == [ts |-> ts, bytes |-> bytes, err |-> err, writes |-> writes]

\* The argument loop of EngineCallExpression.compile, from the i-th argument.
EngineArgs(chain, def, args, i, ts, this_stack, writes) ==
    IF i > Len(args) THEN ArgsDone(ts, this_stack, "none", writes)
    ELSE Bind(Expression_compile(chain, ts, args[i]), LAMBDA r :
            IF r.err # "none" THEN ArgsDone(ts, this_stack, r.err, writes)
            ELSE IF TypeEq(def.parameters[i], DT_ACTION)
            THEN EngineArgs(chain, def, args, i + 1, r.ts, this_stack, writes \cup r.writes)
            ELSE IF ~TypeEq(r.type, def.parameters[i])
            THEN ArgsDone(ts, this_stack, "CompileError", writes)
            ELSE EngineArgs(chain, def, args, i + 1, Accounted(ts, r),
                            this_stack + size(r.type), writes \cup r.writes))

\* EngineCallExpression.compile; no routine of the catalog has a default value.
EngineCallExpression_compile(chain, ts, e) ==
    Bind(EngineFunctions[e.name], LAMBDA def :
       IF Len(e.args) > Len(def.parameters) THEN Raised("CompileError")
       ELSE IF Len(e.args) < Len(def.parameters) THEN Raised("CompileError")
       ELSE Bind(EngineArgs(chain, def, e.args, 1, ts, 0, {}), LAMBDA a :
               IF a.err # "none" THEN Raised(a.err)
               ELSE Compiled(def.return_type,
                             a.ts - a.bytes
                               + (IF TypeEq(def.return_type, VOID) THEN 0
                                  ELSE size(def.return_type)),
                             a.writes)))

\* The loop `for param, arg in zip(definition.parameters, args_list)` of compile_jsr.
JsrArgs(chain, def, args, i, ts, offset, writes) ==
    IF i > Len(args) \/ i > Len(def.parameters) THEN ArgsDone(ts, offset, "none", writes)
    ELSE Bind(Expression_compile(chain, ts, args[i]), LAMBDA r :
            IF r.err # "none" THEN ArgsDone(ts, offset, r.err, writes)
            ELSE IF ~TypeEq(def.parameters[i], r.type)
            THEN ArgsDone(ts, offset, "CompileError", writes)
            ELSE JsrArgs(chain, def, args, i + 1, Accounted(ts, r),
                         offset + size(r.type), writes \cup r.writes))

\* The stack space compile_jsr reserves for the return value; -1 stands for the
\* CompileError of an unsupported or unknown type.
return_type_size(t) ==
    IF t.builtin \in {"INT", "FLOAT", "STRING"} THEN 4
    ELSE IF t.builtin = "VECTOR" THEN 12
    ELSE IF t.builtin = "VOID" THEN 0
    ELSE IF t.builtin = "STRUCT"
    THEN IF t.struct # None /\ t.struct \in DOMAIN struct_map /\ struct_map[t.struct].present
         THEN size(t) ELSE -1
    ELSE -1

\* `required_params = [param for param in definition.parameters if param.default is None]`
required_params(def) == {k \in 1..Len(def.parameters) : def.defaults[k] = NoValue}

\* What compile_jsr makes of the arguments before it compiles them: the error it
\* raises, or args_list filled up with defaults.
ArgsList(err, args_list) == [err |-> err, args_list |-> args_list]

\* A mutant of FillDefaults: no default is added to the arguments.
FillNothing(def, args_list) == ArgsList("none", args_list)

\* `while len(definition.parameters) > len(args_list)`
RECURSIVE FillDefaults(_, _)
FillDefaults(def, args_list) ==
    IF Len(def.parameters) <= Len(args_list) THEN ArgsList("none", args_list)
    ELSE IF def.defaults[Len(args_list) + 1] = NoValue
    THEN ArgsList("CompileError", args_list)
    ELSE FillDefaults(def, Append(args_list, def.defaults[Len(args_list) + 1]))

\* A mutant of args_list: more arguments than parameters is a CompileError.
args_list_counted(def, args) ==
    IF Len(args) > Len(def.parameters) THEN ArgsList("CompileError", args)
    ELSE IF Cardinality(required_params(def)) > Len(args) THEN ArgsList("CompileError", args)
    ELSE FillDefaults(def, args)

\* The argument count check and the defaults of compile_jsr
args_list(def, args) ==
    IF Cardinality(required_params(def)) > Len(args) THEN ArgsList("CompileError", args)
    ELSE FillDefaults(def, args)

\* CodeRoot.compile_jsr
compile_jsr(chain, ts, name, args) ==
    Bind(function_map[name].definition, LAMBDA def :
    Bind(return_type_size(def.return_type), LAMBDA reserved :
       IF reserved < 0 THEN Raised("CompileError")
       ELSE Bind(args_list(def, args), LAMBDA filled :
          IF filled.err # "none" THEN Raised(filled.err)
          ELSE Bind(JsrArgs(chain, def, filled.args_list, 1, ts + reserved, 0, {}), LAMBDA a :
               IF a.err # "none" THEN Raised(a.err)
               ELSE Compiled(def.return_type, a.ts - a.bytes, a.writes)))))

\* FunctionCallExpression.compile
FunctionCallExpression_compile(chain, ts, e) ==
    IF e.name \notin DOMAIN function_map \/ ~function_map[e.name].present
    THEN Raised("CompileError")
    ELSE compile_jsr(chain, ts, e.name, e.args)

\* IdentifierExpression.compile (no script constant carries a name of the model) and
\* FieldAccessExpression.compile
FieldAccessExpression_compile(chain, ts, e) ==
    Bind(FieldAccess_get_scoped(WithTemp(chain, ts), e.path), LAMBDA scoped :
       IF scoped.err # "none" THEN Raised(scoped.err)
       ELSE Compiled(scoped.datatype, ts, {}))

\* expression.compile(ncs, root, block): the block is the last of the chain and ts
\* its temp_stack when the call is made.
Expression_compile(chain, ts, e) ==
    CASE e.kind = "int" -> Compiled(INT, ts, {})
      [] e.kind = "float" -> Compiled(FLOAT, ts, {})
      [] e.kind \in {"ident", "field"} -> FieldAccessExpression_compile(chain, ts, e)
      [] e.kind = "engine" -> EngineCallExpression_compile(chain, ts, e)
      [] e.kind = "call" -> FunctionCallExpression_compile(chain, ts, e)
      [] e.kind = "binary" -> BinaryOperatorExpression_compile(chain, ts, e)
      [] e.kind \in {"unary", "not"} -> UnaryOperatorExpression_compile(chain, ts, e)
      [] e.kind = "ternary" -> TernaryConditionalExpression_compile(chain, ts, e)
      [] e.kind = "assign" -> Assignment_compile(chain, ts, e, FALSE)
      [] e.kind = "compound" -> CompoundAssignment_compile(chain, ts, e)
      [] e.kind \in {"preinc", "postinc", "predec", "postdec"} -> IncDec_compile(chain, ts, e)

(***************************************************************************)
(* Statements                                                              *)
(***************************************************************************)
\* How many blocks may be open at once and how many variables are in scope at once.
MaxDepth == 3
MaxLocals == 3

\* A declaration `[const] type identifier`.
Declaration(identifier, data_type, is_const) ==
    [identifier |-> identifier, data_type |-> data_type, is_const |-> is_const]

\* What a statement's compile returns to the block loop: the chain, the error
\* raised, the const stores.
Stmt(chain, err, writes) == [chain |-> chain, err |-> err, writes |-> writes]

Top(chain) == chain[Len(chain)]

\* VariableDeclarator.compile
VariableDeclarator_compile(chain, d) ==
    IF d.data_type.builtin = "STRUCT"
          /\ ~(d.data_type.struct \in DOMAIN struct_map /\ struct_map[d.data_type.struct].present)
    THEN Stmt(chain, "CompileError", {})
    ELSE IF d.data_type.builtin \in {"VOID", "ACTION"} THEN Stmt(chain, "CompileError", {})
    ELSE Stmt([chain EXCEPT
                 ![Len(chain)].scope =
                     add_scoped(@, ScopedValue(d.identifier, d.data_type, d.is_const)),
                 ![Len(chain)].declared = Append(@, d)],
              "none", {})

\* VariableInitializer.compile
VariableInitializer_compile(chain, d, e) ==
    Bind(Top(chain).temp_stack, LAMBDA initial_temp_stack :
    Bind(VariableDeclarator_compile(chain, d), LAMBDA declarator :
       IF declarator.err # "none" THEN declarator
       ELSE Bind(Assignment_compile(declarator.chain, initial_temp_stack,
                                    Expr("assign", None, <<d.identifier>>, <<e>>), TRUE),
                 LAMBDA a :
                    IF a.err # "none" THEN Stmt(chain, a.err, {})
                    ELSE Stmt(WithTemp(declarator.chain,
                                       IF a.ts > initial_temp_stack THEN a.ts - size(a.type)
                                       ELSE a.ts),
                              "none", a.writes))))

\* ExpressionStatement.compile
ExpressionStatement_compile(chain, e) ==
    Bind(Top(chain).temp_stack, LAMBDA temp_stack_before :
    Bind(Expression_compile(chain, temp_stack_before, e), LAMBDA r :
       IF r.err # "none" THEN Stmt(chain, r.err, {})
       ELSE IF ~TypeEq(r.type, VOID)
       THEN Stmt(WithTemp(chain, IF r.ts > temp_stack_before THEN r.ts - size(r.type)
                                 ELSE r.ts),
                 "none", r.writes)
       ELSE Stmt(WithTemp(chain, IF r.ts > temp_stack_before
                                 THEN r.ts - (r.ts - temp_stack_before) ELSE r.ts),
                 "none", r.writes)))

\* The clean-up ForLoopBlock.compile makes after its initial and its iteration
\* expression: compile, account for the result if the expression did not, pop it.
ForExpression_compile(chain, e) ==
    Bind(Top(chain).temp_stack, LAMBDA temp_stack_before :
    Bind(Expression_compile(chain, temp_stack_before, e), LAMBDA r :
       IF r.err # "none" THEN Stmt(chain, r.err, {})
       ELSE Stmt(WithTemp(chain, Accounted(temp_stack_before, r) - size(r.type)),
                 "none", r.writes)))

\* A condition compiled in the block, the value consumed by JZ and temp_stack put
\* back; typed tells whether the statement insists on an int.
Condition_compile(chain, e, typed) ==
    Bind(Expression_compile(chain, Top(chain).temp_stack, e), LAMBDA r :
       IF r.err # "none" THEN Stmt(chain, r.err, {})
       ELSE IF typed /\ ~TypeEq(r.type, INT) THEN Stmt(chain, "CompileError", {})
       ELSE Stmt(chain, "none", r.writes))

\* block.mark_break_scope() on the last block of the chain.
mark_break_scope(chain) == [chain EXCEPT ![Len(chain)].break_scope = TRUE]

\* The static type of the condition a statement compiled, NoCondition when it has no
\* condition or the condition itself raised.
NoCondition == DynamicDataType("NONE", None)
ConditionType(chain, e) ==
    Bind(Expression_compile(chain, Top(chain).temp_stack, e), LAMBDA r :
       IF r.err # "none" THEN NoCondition ELSE r.type)

\* The condition of an expression statement: that of the ternary operator it is.
TernaryCondition(chain, e) ==
    IF e.kind = "ternary" THEN ConditionType(chain, e.args[1]) ELSE NoCondition

\* What a return statement did: the return_type of the FunctionDefinition it is in,
\* the type its compile returned, the arguments of the CPDOWNSP emitted (<<>>: none),
\* the size of the MOVSP that pops the value, the size of the MOVSP that shrinks the
\* scope (<<>>: none), and whether the JMP to the return instruction was emitted.
Return(declared, type, copy, pop, shrink, jump) ==
    [declared |-> declared, type |-> type, copy |-> copy, pop |-> pop,
     shrink |-> shrink, jump |-> jump]
NoReturn == Return(NoCondition, NoCondition, <<>>, 0, <<>>, FALSE)

\* What is recorded of a call of a script function: the callee, the arguments
\* written, and what compile_jsr made of them.
Call(name, args, filled) ==
    [name |-> name, args |-> args, filled |-> filled, engine |-> FALSE, pushed |-> 0]
NoCall == Call(None, <<>>, ArgsList("none", <<>>))

\* The call an expression statement holds, when its callee is in function_map and
\* compile_jsr gets as far as its arguments.
CallOf(e) ==
    IF e.kind # "call" \/ e.name \notin DOMAIN function_map THEN NoCall
    ELSE IF ~function_map[e.name].present THEN NoCall
    ELSE IF return_type_size(function_map[e.name].definition.return_type) < 0 THEN NoCall
    ELSE Bind(args_list(function_map[e.name].definition, e.args), LAMBDA filled :
            [Call(e.name, e.args, filled) EXCEPT !.pushed =
                IF filled.err # "none" THEN 0
                ELSE JsrArgs(blocks, function_map[e.name].definition, filled.args_list, 1,
                             Top(blocks).temp_stack
                                + return_type_size(function_map[e.name].definition.return_type),
                             0, {}).bytes])

\* What is recorded of a call of an engine routine: the routine and the arguments
\* written.
EngineCallOf(e) == [Call(e.name, e.args, ArgsList("none", e.args)) EXCEPT !.engine = TRUE]

\* What the compile of the expression of an expression statement did: the type it
\* returned, by how much it changed the temp_stack of the block, the error it raised.
ExpressionValue(type, delta, err) == [type |-> type, delta |-> delta, err |-> err]
NoExpressionValue == ExpressionValue(NoCondition, 0, "none")
ValueOf(chain, e) ==
    Bind(Expression_compile(chain, Top(chain).temp_stack, e), LAMBDA r :
       IF r.err # "none" THEN ExpressionValue(NoCondition, 0, r.err)
       ELSE ExpressionValue(r.type, r.ts - Top(chain).temp_stack, "none"))

\* What is recorded of the statement compiled last: its class, the index in the
\* chain of the block it was compiled in, that block's temp_stack before and after,
\* the FieldAccess path it resolved with the result, the MOVSP size and the jump
\* target of a break or continue, the const stores it emitted, and whether it holds
\* an assignment form whose target is const.
Last(kind, at, before, after, path, resolved, movsp, target, writes, const_target) ==
    [kind |-> kind, at |-> at, before |-> before, after |-> after, path |-> path,
     resolved |-> resolved, movsp |-> movsp, target |-> target, writes |-> writes,
     const_target |-> const_target, condition |-> NoCondition, ret |-> NoReturn,
     call |-> NoCall, value |-> NoExpressionValue]
NoLast == Last("none", 0, 0, 0, <<>>, ScopedError, 0, 0, {}, FALSE)

\* The assignment forms of an expression whose target resolves to a const entry.
RECURSIVE HasConstTarget(_, _)
HasConstTarget(chain, e) ==
    \/ /\ e.kind \in {"assign", "compound", "preinc", "postinc", "predec", "postdec"}
       /\ Len(e.path) > 0
       /\ Bind(FieldAccess_get_scoped(chain, e.path), LAMBDA scoped :
               scoped.err = "none" /\ scoped.is_const)
    \/ \E k \in 1..Len(e.args) : HasConstTarget(chain, e.args[k])

\* The path an expression statement resolves when it is a plain read.
ReadPath(e) == IF e.kind \in {"ident", "field"} THEN e.path ELSE <<>>

\* A block is under compilation; its statement loop is still taking statements.
Compiling == status = "ok" /\ Len(blocks) > 0
Running == Compiling /\ ~Top(blocks).returned
RECURSIVE CountLocals(_, _)
CountLocals(chain, i) ==
    IF i = 0 THEN 0 ELSE Len(chain[i].scope) + CountLocals(chain, i - 1)
Locals(chain) == CountLocals(chain, Len(chain))

\* The block loop of CodeBlock.compile takes a statement and compiles it; an error
\* ends the compilation.
Step(kind, r, path, const_target, condition) ==
    /\ status' = IF r.err = "none" THEN "ok" ELSE r.err
    /\ blocks' = r.chain
    /\ last' = [Last(kind, Len(blocks), Top(blocks).temp_stack, Top(r.chain).temp_stack,
                     path,
                     IF path = <<>> THEN ScopedError ELSE FieldAccess_get_scoped(blocks, path),
                     0, 0, r.writes, const_target)
                   EXCEPT !.condition = condition]
    /\ UNCHANGED <<structVars, funcVars, rootVars, runVars>>

\* DeclarationStatement.compile with one VariableDeclarator
DeclarationStatement_compile(d) ==
    /\ Running /\ Locals(blocks) < MaxLocals
    /\ Step("declare", VariableDeclarator_compile(blocks, d), <<>>, FALSE, NoCondition)

\* DeclarationStatement.compile with one VariableInitializer
DeclarationStatement_compile_init(d, e) ==
    /\ Running /\ Locals(blocks) < MaxLocals
    /\ Step("initialize", VariableInitializer_compile(blocks, d, e), <<>>,
            HasConstTarget(VariableDeclarator_compile(blocks, d).chain, e), NoCondition)

\* ExpressionStatement.compile as a statement of the block
ExpressionStatement(e) ==
    /\ Running
    /\ Bind(ExpressionStatement_compile(blocks, e), LAMBDA r :
          /\ status' = IF r.err = "none" THEN "ok" ELSE r.err
          /\ blocks' = r.chain
          /\ last' = [Last("expression", Len(blocks), Top(blocks).temp_stack,
                           Top(r.chain).temp_stack, ReadPath(e),
                           IF ReadPath(e) = <<>> THEN ScopedError
                           ELSE FieldAccess_get_scoped(blocks, ReadPath(e)),
                           0, 0, r.writes, HasConstTarget(blocks, e))
                         EXCEPT !.condition = TernaryCondition(blocks, e),
                                !.call = IF e.kind = "engine" THEN EngineCallOf(e)
                                         ELSE CallOf(e),
                                !.value = ValueOf(blocks, e)])
    /\ UNCHANGED <<structVars, funcVars, rootVars, runVars>>

\* A statement that raises before its block is entered.
Fail(kind, err, condition) ==
    /\ status' = err
    /\ blocks' = blocks
    /\ last' = [Last(kind, Len(blocks), Top(blocks).temp_stack, Top(blocks).temp_stack,
                     <<>>, ScopedError, 0, 0, {}, FALSE)
                   EXCEPT !.condition = condition]
    /\ UNCHANGED <<structVars, funcVars, rootVars, runVars>>

\* block.compile(ncs, root, parent, ...) begins: the block joins the chain with
\* temp_stack 0 and its statements are compiled next.
Enter(parent_chain, kind, brk, cont, temp_stack, held, condition) ==
    /\ status' = "ok"
    /\ blocks' = Append(parent_chain,
                        [CodeBlock(kind, brk, cont) EXCEPT
                            !.entry = Top(blocks).temp_stack,
                            !.temp_stack = temp_stack, !.held = held])
    /\ last' = [Last("enter", Len(blocks), Top(blocks).temp_stack,
                     Top(parent_chain).temp_stack, <<>>, ScopedError, 0, 0, {}, FALSE)
                   EXCEPT !.condition = condition]
    /\ UNCHANGED <<structVars, funcVars, rootVars, runVars>>

CanOpen == Running /\ Len(blocks) < MaxDepth

\* ConditionalBlock.compile up to the compile of the if block.
ConditionalBlock_compile(condition) ==
    /\ CanOpen
    /\ Bind(Condition_compile(blocks, condition, FALSE), LAMBDA c :
          IF c.err # "none" THEN Fail("if", c.err, ConditionType(blocks, condition))
          ELSE Enter(blocks, "if", Top(blocks).brk, Top(blocks).cont, 0, 0,
                     ConditionType(blocks, condition)))

\* WhileLoopBlock.compile up to the compile of the body.
WhileLoopBlock_compile(condition) ==
    /\ CanOpen
    /\ Bind(Condition_compile(mark_break_scope(blocks), condition, TRUE), LAMBDA c :
          IF c.err # "none" THEN Fail("while", c.err, ConditionType(blocks, condition))
          ELSE Enter(c.chain, "while", Len(blocks) + 1, Len(blocks) + 1, 0, 0,
                     ConditionType(blocks, condition)))

\* DoWhileLoopBlock.compile up to the compile of the body.
DoWhileLoopBlock_compile ==
    /\ CanOpen
    /\ Enter(mark_break_scope(blocks), "do", Len(blocks) + 1, Len(blocks) + 1, 0, 0,
             NoCondition)

\* The initial of a for loop: nothing, an expression, or a declaration statement.
NoInitial == [stmt |-> "none", d |-> Declaration(None, VOID, FALSE), e |-> Expr("int", None, <<>>, <<>>)]
InitialExpression(e) == [stmt |-> "expression", d |-> Declaration(None, VOID, FALSE), e |-> e]
InitialDeclaration(d, e) == [stmt |-> "declaration", d |-> d, e |-> e]

\* The initial of ForLoopBlock.compile, in the block that holds the loop.
ForInitial_compile(marked, initial) ==
    IF initial.stmt = "none" THEN Stmt(marked, "none", {})
    ELSE IF initial.stmt = "declaration"
    THEN VariableInitializer_compile(marked, initial.d, initial.e)
    ELSE ForExpression_compile(marked, initial.e)

\* ForLoopBlock.compile up to the compile of the body.
ForLoopBlock_compile(initial, condition) ==
    /\ CanOpen
    /\ initial.stmt = "declaration" => Locals(blocks) < MaxLocals
    /\ Bind(ForInitial_compile(mark_break_scope(blocks), initial), LAMBDA i :
          IF i.err # "none" THEN Fail("for", i.err, NoCondition)
          ELSE Bind(Condition_compile(i.chain, condition, TRUE), LAMBDA c :
                  IF c.err # "none" THEN Fail("for", c.err, ConditionType(i.chain, condition))
                  ELSE Enter(c.chain, "for", Len(blocks) + 1, Len(blocks) + 1, 0, 0,
                             ConditionType(i.chain, condition))))

\* ScopedBlock.compile up to the compile of the block.
ScopedBlock_compile ==
    /\ CanOpen
    /\ Enter(blocks, "scoped", Top(blocks).brk, Top(blocks).cont, 0, 0, NoCondition)

\* SwitchStatement.compile up to the statements of the cases: real_block joins the
\* chain, the switch expression is compiled in it and its size added to temp_stack.
SwitchStatement_compile(expression) ==
    /\ CanOpen
    /\ Bind(mark_break_scope(blocks), LAMBDA marked :
       Bind(Expression_compile(Append(marked, CodeBlock("switch", 0, 0)), 0, expression),
            LAMBDA r :
               IF r.err # "none" THEN Fail("switch", r.err, NoCondition)
               ELSE Enter(marked, "switch", Len(blocks) + 1, 0, r.ts + size(r.type),
                          size(r.type), NoCondition)))

\* The end of a statement that owns a block: the block leaves the chain and the
\* parent goes on.
Leave(kind, r, condition) ==
    /\ status' = IF r.err # "none" THEN r.err
                 ELSE IF Len(r.chain) = 0 THEN "done" ELSE "ok"
    /\ blocks' = r.chain
    /\ last' = [Last(kind, Len(blocks) - 1, Top(blocks).entry,
                     IF Len(r.chain) = 0 THEN 0 ELSE Top(r.chain).temp_stack,
                     <<>>, ScopedError, 0, 0, r.writes, FALSE)
                   EXCEPT !.condition = condition]
    /\ UNCHANGED <<structVars, funcVars, rootVars, runVars>>

\* The end of CodeBlock.compile: ValueError when temp_stack is not 0, unless the
\* statement loop left through a return statement, which skips the check.
CodeBlock_compile_end(chain) ==
    IF ~Top(chain).returned /\ Top(chain).temp_stack # 0 THEN Stmt(chain, "ValueError", {})
    ELSE Stmt(SubSeq(chain, 1, Len(chain) - 1), "none", {})

\* The end of the block of a function body, an if, a while or a nested block.
BlockEnd ==
    /\ Compiling /\ Top(blocks).kind \in {"function", "if", "while", "scoped"}
    /\ Leave(Top(blocks).kind, CodeBlock_compile_end(blocks), NoCondition)

\* DoWhileLoopBlock.compile from the end of the body: the condition.
DoWhileLoopBlock_compile_end(condition) ==
    /\ Compiling /\ Top(blocks).kind = "do"
    /\ Bind(CodeBlock_compile_end(blocks), LAMBDA b :
          Leave("do", IF b.err # "none" THEN b ELSE Condition_compile(b.chain, condition, TRUE),
                IF b.err # "none" THEN NoCondition ELSE ConditionType(b.chain, condition)))

\* ForLoopBlock.compile from the end of the body: the iteration expression.
ForLoopBlock_compile_end(iteration) ==
    /\ Compiling /\ Top(blocks).kind = "for"
    /\ Bind(CodeBlock_compile_end(blocks), LAMBDA b :
          Leave("for", IF b.err # "none" THEN b ELSE ForExpression_compile(b.chain, iteration),
                NoCondition))

\* SwitchStatement.compile after the statements of the cases: real_block is never
\* compiled as a block, so nothing checks its temp_stack.
SwitchStatement_compile_end ==
    /\ Compiling /\ Top(blocks).kind = "switch"
    /\ Leave("switch", Stmt(SubSeq(blocks, 1, Len(blocks) - 1), "none", {}), NoCondition)

\* BreakStatement.compile / ContinueStatement.compile
Jump(kind, instruction) ==
    /\ Running
    /\ status' = IF instruction = 0 THEN "CompileError" ELSE "ok"
    /\ blocks' = blocks
    /\ last' = Last(kind, Len(blocks), Top(blocks).temp_stack, Top(blocks).temp_stack,
                    <<>>, ScopedError,
                    IF instruction = 0 THEN 0 ELSE break_scope_size(blocks, Len(blocks)),
                    instruction, {}, FALSE)
    /\ UNCHANGED <<structVars, funcVars, rootVars, runVars>>

BreakStatement_compile == Jump("break", Top(blocks).brk)
ContinueStatement_compile == Jump("continue", Top(blocks).cont)

\* ReturnStatement.compile: the type of the expression, VOID when there is none
\* (an expression of kind "none").
ReturnStatement_compile(chain, value) ==
    IF value.kind = "none" THEN Compiled(VOID, Top(chain).temp_stack, {})
    ELSE Expression_compile(chain, Top(chain).temp_stack, value)

\* What the return branch of the statement loop of CodeBlock.compile emits around
\* the return statement that returned the type r.type.
ReturnEmitted(declared, full, r) ==
    IF TypeEq(r.type, VOID) THEN Return(declared, r.type, <<>>, 0, <<full>>, TRUE)
    ELSE Return(declared, r.type, <<-full - size(r.type) * 2, 4>>, size(r.type),
                <<full>>, TRUE)

\* A return statement, in the body of a FunctionDefinition whose return_type is
\* declared.  In a block compiled by CodeBlock.compile the statement loop emits the
\* copy, the shrink and the jump and leaves; under a case label SwitchStatement.compile
\* calls the statement's compile itself and goes on with the next statement.
ReturnStatement(declared, value) ==
    /\ Running
    /\ Bind(ReturnStatement_compile(blocks, value), LAMBDA r :
          /\ status' = IF r.err = "none" THEN "ok" ELSE r.err
          /\ blocks' = IF r.err # "none" THEN blocks
                       ELSE IF Top(blocks).kind = "switch" THEN WithTemp(blocks, r.ts)
                       ELSE [WithTemp(blocks, r.ts) EXCEPT ![Len(blocks)].returned = TRUE]
          /\ last' = [Last("return", Len(blocks), Top(blocks).temp_stack,
                           IF r.err # "none" THEN Top(blocks).temp_stack ELSE r.ts,
                           <<>>, ScopedError, 0, 0, r.writes, FALSE)
                      EXCEPT !.ret =
                         IF r.err # "none" THEN Return(declared, NoCondition, <<>>, 0, <<>>, FALSE)
                         ELSE IF Top(blocks).kind = "switch"
                         THEN Return(declared, r.type, <<>>, 0, <<>>, FALSE)
                         ELSE ReturnEmitted(declared, full_scope_size(blocks, Len(blocks)), r)])
    /\ UNCHANGED <<structVars, funcVars, rootVars, runVars>>

(***************************************************************************)
(* The statements and expressions the function bodies are made of          *)
(***************************************************************************)
IntExpression == Expr("int", None, <<>>, <<>>)
FloatExpression == Expr("float", None, <<>>, <<>>)
IdentifierExpression(n) == Expr("ident", n, <<n>>, <<>>)
FieldAccessExpression(path) == Expr("field", None, path, <<>>)
EngineCallExpression(n, args) == Expr("engine", n, <<>>, args)
FunctionCallExpression(n, args) == Expr("call", n, <<>>, args)
Assignment(path, e) == Expr("assign", "=", path, <<e>>)
CompoundAssignment(op, path, e) == Expr("compound", op, path, <<e>>)
IncDec(kind, path) == Expr(kind, None, path, <<>>)

InitBlockVars ==
    /\ blocks = <<CodeBlock("function", 0, 0)>>
    /\ status = "ok" /\ last = NoLast
    /\ IdleRun

InitBody ==
    /\ IdleRoot
    /\ struct_map = BlockStructs /\ last_size = NoQuery /\ registered = 0
    /\ function_map = BlockFunctions /\ instructions = <<>> /\ next_id = 0
    /\ fstatus = "idle" /\ compiled = 0 /\ flast = <<>>
    /\ InitBlockVars

\* ---- SpecScope: declarations, reads and writes of variables in nested blocks
\* How deep the blocks of these bodies nest.
ScopeDepth == 2
ScopeDeclarations ==
    {Declaration("x", INT, FALSE), Declaration("c", INT, TRUE),
     Declaration("v", VECTOR, FALSE), Declaration("s", STRUCT("S"), FALSE)}
ScopeInitializers == {IntExpression, FloatExpression, IdentifierExpression("x")}
ReadNames == {"x", "c", "v", "s", "k", "g", "u"}
FieldPaths ==
    {<<"s", "a">>, <<"s", "t">>, <<"s", "t", "p">>, <<"s", "t", "q">>, <<"s", "b">>,
     <<"s", "b", "x">>, <<"s", "b", "y">>, <<"s", "b", "z">>, <<"s", "b", "w">>,
     <<"s", "zz">>, <<"s", "t", "zz">>, <<"s", "a", "p">>,
     <<"v", "x">>, <<"v", "y">>, <<"v", "z">>, <<"v", "w">>, <<"x", "a">>,
     <<"ks", "t", "q">>}
WritePaths == {<<"x">>, <<"c">>, <<"k">>, <<"g">>, <<"ks", "a">>, <<"s", "a">>, <<"v", "y">>}
ConstPaths == {<<"x">>, <<"c">>, <<"ks", "a">>}
ScopeExpressions ==
    {IdentifierExpression(n) : n \in ReadNames}
    \cup {FieldAccessExpression(path) : path \in FieldPaths}
    \cup {Assignment(path, e) : path \in WritePaths, e \in {IntExpression, FloatExpression}}
    \cup {CompoundAssignment(op, path, IntExpression) : op \in CompoundOps, path \in ConstPaths}
    \cup {IncDec(kind, path) : kind \in {"preinc", "postinc", "predec", "postdec"},
                               path \in ConstPaths \cup {<<"k">>}}

NextScope ==
    \/ \E d \in ScopeDeclarations : DeclarationStatement_compile(d)
    \/ \E d \in ScopeDeclarations, e \in ScopeInitializers : DeclarationStatement_compile_init(d, e)
    \/ \E e \in ScopeExpressions : ExpressionStatement(e)
    \/ Len(blocks) < ScopeDepth /\ ScopedBlock_compile
    \/ BlockEnd

SpecScope == InitBody /\ [][NextScope]_vars

\* The size of a type read off the member lists: 4 per storage unit, a vector 12, a
\* struct the sum of its members.
RefSize(t) ==
    IF t.builtin = "STRUCT" THEN MemberSum(struct_map, t.struct, RecursionLimit)
    ELSE DataType_size(t.builtin)

\* The sizes of the declarations from the i-th on.
RECURSIVE SizesFrom(_, _)
SizesFrom(declared, i) ==
    IF i > Len(declared) THEN 0
    ELSE RefSize(declared[i].data_type) + SizesFrom(declared, i + 1)

DistinctNames(declared) ==
    \A i, j \in 1..Len(declared) : i # j => declared[i].identifier # declared[j].identifier

\* C7: in a block with temp_stack 0 whose declarations v1..vN have distinct names,
\* resolving vi yields a local result whose offset is minus the sum of the sizes of
\* vi..vN, so the offsets grow strictly more negative toward the first declared.
C7_OffsetsFollowDeclarationOrder ==
    (/\ status = "ok" /\ last.kind = "expression" /\ Len(last.path) = 1
     /\ Top(blocks).temp_stack = 0
     /\ DistinctNames(Top(blocks).declared))
       => \A i \in 1..Len(Top(blocks).declared) :
             Top(blocks).declared[i].identifier = last.path[1] =>
                /\ last.resolved.err = "none"
                /\ ~last.resolved.is_global
                /\ last.resolved.offset = 0 - SizesFrom(Top(blocks).declared, i)
                /\ i < Len(Top(blocks).declared) =>
                      last.resolved.offset < 0 - SizesFrom(Top(blocks).declared, i + 1)

\* The first of three variables of three sizes, declared in one block, was resolved.
C7_FirstOfThreeResolved ==
    /\ status = "ok" /\ last.kind = "expression" /\ Len(last.path) = 1
    /\ Len(Top(blocks).declared) = 3 /\ DistinctNames(Top(blocks).declared)
    /\ Top(blocks).declared[1].identifier = last.path[1]
    /\ Top(blocks).declared[2].data_type = VECTOR
    /\ Top(blocks).declared[3].data_type = STRUCT("S")
    /\ last.resolved.offset = -40

\* Where a member path leads from a type: the bytes before the member (the sizes of
\* the members declared before it, through every struct of the path; 0, 4, 8 for the
\* x, y, z of a vector) and the member's declared type (FLOAT for a component).
Leads(ok, offset, type) == [ok |-> ok, offset |-> offset, type |-> type]
RECURSIVE Before(_, _)
Before(members, j) ==
    IF j = 1 THEN 0 ELSE RefSize(members[j - 1].datatype) + Before(members, j - 1)
RECURSIVE RefWalk(_, _, _)
RefWalk(t, path, k) ==
    IF k > Len(path) THEN Leads(TRUE, 0, t)
    ELSE IF t.builtin = "VECTOR"
    THEN IF path[k] \notin {"x", "y", "z"} THEN Leads(FALSE, 0, VOID)
         ELSE LET rest == RefWalk(FLOAT, path, k + 1)
              IN Leads(rest.ok,
                       rest.offset + (CASE path[k] = "x" -> 0 [] path[k] = "y" -> 4
                                        [] path[k] = "z" -> 8),
                       rest.type)
    ELSE IF t.builtin = "STRUCT"
    THEN LET members == struct_map[t.struct].members
             hits == {j \in 1..Len(members) : members[j].identifier = path[k]}
         IN IF hits = {} THEN Leads(FALSE, 0, VOID)
            ELSE LET j == CHOOSE h \in hits : \A g \in hits : h <= g
                     rest == RefWalk(members[j].datatype, path, k + 1)
                 IN Leads(rest.ok, Before(members, j) + rest.offset, rest.type)
    ELSE Leads(FALSE, 0, VOID)

\* C8: for a variable resolved at offset o the field access v.m1...mk resolves to o
\* plus the bytes before each member along the path and to the declared type of mk;
\* the x, y, z of a vector are at +0, +4, +8 with type FLOAT; a member that is not in
\* the struct, or a member of any other type, raises CompileError.
C8_FieldAccessOffsetAndType ==
    (/\ last.kind = "expression" /\ Len(last.path) >= 2
     /\ CodeBlock_get_scoped(blocks, Len(blocks), last.path[1], 0).err = "none")
       => LET base == CodeBlock_get_scoped(blocks, Len(blocks), last.path[1], 0)
              ref == RefWalk(base.datatype, last.path, 2)
          IN IF ref.ok
             THEN /\ status = "ok"
                  /\ last.resolved.err = "none"
                  /\ last.resolved.offset = base.offset + ref.offset
                  /\ last.resolved.datatype = ref.type
                  /\ last.resolved.is_global = base.is_global
             ELSE status = "CompileError"

\* The member q of the struct member t of a struct variable that is not the last
\* declared was resolved.
C8_NestedMemberResolved ==
    /\ status = "ok" /\ last.kind = "expression"
    /\ last.path = <<"s", "t", "q">>
    /\ Len(Top(blocks).scope) >= 2 /\ Top(blocks).scope[2].identifier = "s"
    /\ last.resolved.datatype = FLOAT
    /\ last.resolved.offset = 8 - 24 - size(Top(blocks).scope[1].data_type)

\* C5: every assignment form (=, the compound assignments, prefix and postfix ++
\* and --) whose target resolves to a const entry raises CompileError; the only
\* store to a const variable that compiles is the one of its own initializer.
C5_ConstIsNeverReassigned ==
    /\ last.const_target => status = "CompileError"
    /\ "assign" \notin last.writes
    /\ "init" \in last.writes => last.kind = "initialize"

\* An assignment form on a const target was refused in a block where a const local
\* had been declared.
C5_ConstTargetRefused ==
    /\ status = "CompileError" /\ last.kind = "expression" /\ last.const_target
    /\ \E k \in 1..Len(Top(blocks).scope) : Top(blocks).scope[k].is_const

(***************************************************************************)
(* SpecBlock: every statement kind, with calls among the expressions       *)
(***************************************************************************)
\* How many variables are in scope at once in these bodies.
BlockLocals == 2

Geti == FunctionCallExpression("geti", <<>>)
X == IdentifierExpression("x")
BlockDeclarations == {Declaration("x", INT, FALSE)}
BlockInitializers == {IntExpression, Geti}
BlockExpressions ==
    {IntExpression, Geti, X,
     Assignment(<<"x">>, Geti),
     EngineCallExpression("ActionDoCommand", <<Geti>>),
     EngineCallExpression("ActionDoCommand", <<FunctionCallExpression("put", <<IntExpression>>)>>),
     Expr("binary", "+", <<>>, <<X, Geti>>),
     Expr("ternary", None, <<>>, <<Geti, X, IntExpression>>),
     Expr("ternary", None, <<>>, <<FloatExpression, IntExpression, IntExpression>>),
     Expr("unary", "-", <<>>, <<Geti>>),
     Expr("not", "!", <<>>, <<X>>),
     IncDec("postinc", <<"x">>),
     CompoundAssignment("+=", <<"x">>, Geti),
     FunctionCallExpression("put", <<EngineCallExpression("Abs", <<X>>)>>)}
Conditions == {IntExpression, Geti, FloatExpression}
Initials ==
    {NoInitial, InitialExpression(Assignment(<<"x">>, IntExpression)), InitialExpression(Geti),
     InitialExpression(EngineCallExpression("ActionDoCommand", <<Geti>>)),
     InitialDeclaration(Declaration("x", INT, FALSE), IntExpression)}
Iterations ==
    {IncDec("postinc", <<"x">>), Geti, IntExpression,
     EngineCallExpression("ActionDoCommand", <<Geti>>)}
SwitchExpressions == {IntExpression, X, Geti}
\* The declared return types of the function and what its return statements return:
\* nothing, an int, a float, a vector (the member b of the global ks).
ReturnTypes == {VOID, INT}
ReturnValues ==
    {NoValue, IntExpression, X, FloatExpression, FieldAccessExpression(<<"ks", "b">>)}

\* The bodies stop growing once a block carries more than this on its temp_stack.
MaxTempStack == 8
WithinTempStack == \A i \in 1..Len(blocks) : blocks[i].temp_stack <= MaxTempStack

NextBlock ==
  WithinTempStack /\
  ( \/ \E d \in BlockDeclarations :
          Locals(blocks) < BlockLocals /\ DeclarationStatement_compile(d)
    \/ \E d \in BlockDeclarations, e \in BlockInitializers :
          Locals(blocks) < BlockLocals /\ DeclarationStatement_compile_init(d, e)
    \/ \E e \in BlockExpressions : ExpressionStatement(e)
    \/ \E c \in Conditions : ConditionalBlock_compile(c)
    \/ \E c \in Conditions : WhileLoopBlock_compile(c)
    \/ DoWhileLoopBlock_compile
    \/ \E i \in Initials, c \in Conditions :
          Locals(blocks) < BlockLocals /\ ForLoopBlock_compile(i, c)
    \/ ScopedBlock_compile
    \/ \E e \in SwitchExpressions : SwitchStatement_compile(e)
    \/ BlockEnd
    \/ \E c \in Conditions : DoWhileLoopBlock_compile_end(c)
    \/ \E e \in Iterations : ForLoopBlock_compile_end(e)
    \/ SwitchStatement_compile_end
    \/ BreakStatement_compile
    \/ ContinueStatement_compile
    \/ \E declared \in ReturnTypes, value \in ReturnValues : ReturnStatement(declared, value) )

SpecBlock == InitBody /\ [][NextBlock]_vars

\* ---- SpecCall: calls of script functions as statements of a function body
\* How many arguments a call is written with at most.
MaxArgs == 2
CallArguments == {IntExpression, FloatExpression, X}
ArgumentLists ==
    UNION {[1..n -> CallArguments] : n \in 0..MaxArgs}
CallExpressions ==
    {FunctionCallExpression(n, args) : n \in DOMAIN BlockFunctions, args \in ArgumentLists}

NextCall ==
    \/ \E d \in BlockDeclarations :
          Locals(blocks) < BlockLocals /\ DeclarationStatement_compile(d)
    \/ \E e \in CallExpressions : ExpressionStatement(e)

SpecCall == InitBody /\ [][NextCall]_vars

\* ---- SpecArgs: calls of script functions and of engine routines with as many
\* arguments as parameters, fewer, or more
EngineCallExpressions ==
    {EngineCallExpression(n, args) : n \in {"GetN", "Abs"}, args \in ArgumentLists}

NextArgs ==
    \/ \E d \in BlockDeclarations :
          Locals(blocks) < BlockLocals /\ DeclarationStatement_compile(d)
    \/ \E e \in CallExpressions \cup EngineCallExpressions : ExpressionStatement(e)

SpecArgs == InitBody /\ [][NextArgs]_vars

\* ---- SpecExpr: expression statements of every expression class, in the blocks
\* of a body that declares up to BlockLocals locals
ExprExpressions ==
    BlockExpressions
    \cup {FloatExpression, FieldAccessExpression(<<"ks", "b">>),
          EngineCallExpression("GetN", <<>>), EngineCallExpression("Abs", <<Geti>>),
          EngineCallExpression("Abs", <<IntExpression>>),
          FunctionCallExpression("put", <<X>>), FunctionCallExpression("Foo", <<Geti>>),
          Expr("binary", "+", <<>>, <<FloatExpression, IntExpression>>),
          Expr("ternary", None, <<>>, <<X, Geti, Geti>>),
          Expr("not", "!", <<>>, <<Geti>>),
          IncDec("predec", <<"x">>),
          Assignment(<<"x">>, IntExpression),
          CompoundAssignment("+=", <<"x">>, IntExpression)}

NextExpr ==
    \/ \E d \in BlockDeclarations :
          Locals(blocks) < BlockLocals /\ DeclarationStatement_compile(d)
    \/ \E e \in ExprExpressions : ExpressionStatement(e)
    \/ Len(blocks) < ScopeDepth /\ ScopedBlock_compile
    \/ BlockEnd

SpecExpr == InitBody /\ [][NextExpr]_vars

(***************************************************************************)
(* Temp-stack balance, break and continue                                  *)
(***************************************************************************)
LoopKinds == {"while", "do", "for"}

\* The index in the chain of the innermost block, from the i-th down, that is the
\* body of a statement of one of the kinds (0: none).
RECURSIVE Innermost(_, _, _)
Innermost(chain, i, kinds) ==
    IF i = 0 THEN 0
    ELSE IF chain[i].kind \in kinds THEN i ELSE Innermost(chain, i - 1, kinds)

\* The total size of the locals declared so far in the blocks j..Len(chain).
RECURSIVE DeclaredFrom(_, _)
DeclaredFrom(chain, j) ==
    IF j > Len(chain) THEN 0
    ELSE SizesFrom(chain[j].declared, 1) + DeclaredFrom(chain, j + 1)

\* The statements that have returned from their compile.
Returned == last.kind \notin {"none", "enter"}

\* C1: a statement that compiles without CompileError in a block whose temp_stack
\* was 0 leaves it 0, and CodeBlock.compile never raises "Temporary stack not
\* cleared".
C1_TempStackBalanced ==
    /\ status # "ValueError"
    /\ (Returned /\ status \in {"ok", "done"} /\ last.before = 0) => last.after = 0

\* A for statement has returned to a block whose temp_stack it left above 0.
C1_ForLeavesTempStack ==
    /\ status = "ok" /\ last.kind = "for" /\ last.before = 0 /\ last.after > 0

\* C9: a break or continue shrinks the stack by the total size of the locals
\* declared so far in the blocks from its own up to and including the body of the
\* innermost enclosing loop, or the scope of the innermost enclosing switch.
C9_JumpUnwindsLoopLocals ==
    (last.kind \in {"break", "continue"} /\ status = "ok")
        => last.movsp = DeclaredFrom(blocks,
                                     Innermost(blocks, Len(blocks), LoopKinds \cup {"switch"}))

\* A break in an if inside a loop body that holds a local and an earlier loop.
C9_BreakAfterInnerLoop ==
    /\ last.kind = "break" /\ status = "ok"
    /\ Len(blocks) = 3 /\ blocks[2].kind \in LoopKinds /\ blocks[3].kind = "if"
    /\ Len(blocks[2].scope) > 0 /\ blocks[2].break_scope

\* C10: break raises CompileError iff no loop or switch encloses it, continue iff
\* no loop encloses it; a continue that compiles jumps to the innermost loop.
C10_JumpLegality ==
    /\ last.kind = "break" =>
          /\ status = "CompileError"
                <=> Innermost(blocks, Len(blocks), LoopKinds \cup {"switch"}) = 0
          /\ status = "ok"
                => last.target = Innermost(blocks, Len(blocks), LoopKinds \cup {"switch"})
    /\ last.kind = "continue" =>
          /\ status = "CompileError" <=> Innermost(blocks, Len(blocks), LoopKinds) = 0
          /\ status = "ok" => last.target = Innermost(blocks, Len(blocks), LoopKinds)

\* A continue in a switch inside a loop was refused.
C10_ContinueInSwitchInLoop ==
    /\ last.kind = "continue" /\ status = "CompileError"
    /\ Top(blocks).kind = "switch" /\ Innermost(blocks, Len(blocks), LoopKinds) > 0

(***************************************************************************)
(* Conditions                                                              *)
(***************************************************************************)
\* C11: a conditional construct (if, while, do-while, for, the ternary operator)
\* whose condition has a static type other than INT raises CompileError.
C11_ConditionMustBeInt ==
    (last.condition # NoCondition /\ ~TypeEq(last.condition, INT))
        => status = "CompileError"

\* An if block was entered on a condition of type float.
C11_IfEnteredOnFloat ==
    /\ status = "ok" /\ last.kind = "enter" /\ Top(blocks).kind = "if"
    /\ TypeEq(last.condition, FLOAT)

(***************************************************************************)
(* Return statements                                                       *)
(***************************************************************************)
\* C12: a return statement that yields a type different from the declared return
\* type of its function raises CompileError.
C12_ReturnTypeChecked ==
    (last.kind = "return" /\ last.ret.type # NoCondition
        /\ ~TypeEq(last.ret.type, last.ret.declared))
        => status = "CompileError"

\* A return statement of a void function compiled with a value of type int.
C12_IntReturnedFromVoid ==
    /\ last.kind = "return" /\ status = "ok"
    /\ TypeEq(last.ret.declared, VOID) /\ TypeEq(last.ret.type, INT)

(***************************************************************************)
(* Calls of script functions                                               *)
(***************************************************************************)
\* The parameters of the callee of the call compiled last that the call leaves out.
Omitted == (Len(last.call.args) + 1)..Len(function_map[last.call.name].definition.parameters)

\* The default expressions of the parameters left out, as the declaration in
\* function_map holds them.
DefaultsOf(name, from) ==
    [k \in 1..(Len(function_map[name].definition.parameters) - (from - 1)) |->
        function_map[name].definition.defaults[k + from - 1]]

\* The arguments compile_jsr compiles are those written, then the defaults of the
\* parameters left out.
FilledFromDefaults ==
    /\ last.call.filled.err = "none"
    /\ last.call.filled.args_list = last.call.args \o DefaultsOf(last.call.name, Len(last.call.args) + 1)
    /\ \A k \in 1..Len(last.call.filled.args_list) : last.call.filled.args_list[k] # NoValue

C13_RequiredAfterDefault ==
    /\ status = "CompileError" /\ last.call.name = "Bar" /\ Len(last.call.args) = 1

(***************************************************************************)
(* The size of an unregistered struct type                                 *)
(***************************************************************************)
\* C14: the size query of a STRUCT type whose name is not in struct_map fails with
\* CompileError and with no other exception.
C14_UnregisteredSizeIsCompileError ==
    (last_size.name # None /\ ~struct_map[last_size.name].present)
        => last_size.err = "CompileError"

\* The size of a struct type was asked while its name was not registered, and the
\* query ended in the KeyError of the table lookup.
C14_UnregisteredSizeIsKeyError ==
    /\ last_size.name # None /\ ~struct_map[last_size.name].present
    /\ last_size.err = "KeyError"

(***************************************************************************)
(* Included files                                                          *)
(***************************************************************************)
\* The key the library is to be asked for: the name as written when a lookup
\* folder is configured, the lower-cased name when none is.
LibraryKey == IF Len(library_lookup) > 0 THEN script.file ELSE lower(script.file)

\* C15: a file not found in the lookup folders is looked up in the library under
\* the name as written when a lookup folder is configured and under the lower-cased
\* name when none is; MissingIncludeError is raised exactly when neither the
\* folders nor that library lookup yields the file.
C15_LibraryLookupCase ==
    (script # <<>> /\ \A k \in 1..Len(library_lookup) :
                          files[<<library_lookup[k], script.file>>] = "absent")
        => /\ script.err = "MissingIncludeError" <=> LibraryKey \notin library
           /\ script.err = "none" => (script.origin = "library" /\ script.key = LibraryKey)

\* No lookup folder is configured, the library holds k_inc, the file is written
\* K_INC, and MissingIncludeError was raised.
C15_UpperCaseNameMissed ==
    /\ script # <<>> /\ library_lookup = <<>>
    /\ script.file = "K_INC" /\ "k_inc" \in library /\ "K_INC" \notin library
    /\ script.err = "MissingIncludeError"

(***************************************************************************)
(* The order in which the top-level objects are compiled                   *)
(***************************************************************************)
\* C16: whatever the order of the top-level objects, every global (variable
\* declaration, variable initialization, struct definition) is compiled before any
\* function; the globals are compiled in their order in the file and so are the
\* functions; a compilation that succeeds has compiled every one of them.
C16_GlobalsBeforeFunctions ==
    /\ \A i, j \in 1..Len(compile_order) :
          i < j =>
             /\ ~(objects[compile_order[i]].kind = "function"
                    /\ objects[compile_order[j]].kind = "global")
             /\ objects[compile_order[i]].kind = objects[compile_order[j]].kind
                   => compile_order[i] < compile_order[j]
    /\ (pc = "done" /\ rstatus = "ok") =>
          \A k \in 1..Len(objects) : \E i \in 1..Len(compile_order) : compile_order[i] = k

\* A file whose first object is a function and which holds two globals after it
\* compiled: the globals first, in their order, then the function.
C16_GlobalsAfterFunctionInSource ==
    /\ pc = "done" /\ rstatus = "ok" /\ Len(objects) = 3
    /\ objects[1].kind = "function" /\ objects[2].kind = "global" /\ objects[3].kind = "global"
    /\ compile_order = <<2, 3, 1>>

(***************************************************************************)
(* The layout of the instruction list                                      *)
(***************************************************************************)
\* The entry sequence expected for the function table: JSR main, RETN when main is
\* registered, RSADDI, JSR StartingConditional, RETN otherwise; each element is
\* <<instruction type, id of the jump target>>.
ExpectedEntry ==
    IF function_map["main"].present
    THEN <<(<<"JSR", function_map["main"].instruction>>), (<<"RETN", 0>>)>>
    ELSE <<(<<"RSADDI", 0>>), (<<"JSR", function_map["StartingConditional"].instruction>>),
           (<<"RETN", 0>>)>>

\* C17: after a successful CodeRoot.compile the instruction list is the
\* instructions of the globals, then SAVEBP when a global-scope object was
\* compiled, then the entry sequence (main taking precedence), whose JSR targets
\* the instruction registered for the entry function, then the stubs and bodies of
\* the functions; no splice has put a function's instruction before the entry
\* sequence.
C17_InstructionLayout ==
    (pc = "done" /\ rstatus = "ok" /\ entry_index >= 0) =>
       /\ Len(instructions) >= entry_index + Len(ExpectedEntry)
       /\ \A k \in 1..entry_index : instructions[k].body = "#globals"
       /\ script_globals # <<>> <=>
             (entry_index > 0 /\ instructions[entry_index].ins_type = "SAVEBP")
       /\ \A k \in 1..(entry_index - 1) : instructions[k].ins_type = "RSADDI"
       /\ entry_index = Len(GlobalOps(script_globals)) + (IF script_globals # <<>> THEN 1 ELSE 0)
       /\ \A k \in 1..Len(ExpectedEntry) :
             /\ instructions[entry_index + k].body = "#entry"
             /\ instructions[entry_index + k].ins_type = ExpectedEntry[k][1]
             /\ instructions[entry_index + k].jump = ExpectedEntry[k][2]
       /\ \A k \in (entry_index + Len(ExpectedEntry) + 1)..Len(instructions) :
             instructions[k].body \notin {"#globals", "#entry"}
       /\ \A k \in 1..Len(instructions) :
             (instructions[k].ins_type = "JSR" /\ instructions[k].body = "#entry")
                => /\ PositionOf(instructions[k].jump) > entry_index + Len(ExpectedEntry)
                   /\ instructions[PositionOf(instructions[k].jump)].ins_type = "NOP"

\* A file with a global, prototypes of main and StartingConditional, and a body of
\* main spliced in after its stub compiled.
C17_MainAndConditionalWithSplice ==
    /\ pc = "done" /\ rstatus = "ok" /\ script_globals # <<>>
    /\ function_map["main"].present /\ function_map["main"].prototype
    /\ function_map["StartingConditional"].present
    /\ \E k \in 1..Len(instructions) : instructions[k].body = "main"

(***************************************************************************)
(* What a return statement emits                                           *)
(***************************************************************************)
\* C18: every return statement that compiles, one written directly under a case
\* label of a switch included, emits a stack shrink by the full scope size at that
\* point and then a jump to the return instruction of the function, and the
\* statements that follow it in its block are not compiled.
C18_ReturnUnwindsAndJumps ==
    (last.kind = "return" /\ status = "ok") =>
        /\ last.ret.shrink = <<DeclaredFrom(blocks, 1)>>
        /\ last.ret.jump
        /\ ~Running

\* A return statement under a case label compiled: no shrink, no jump, and the
\* statement loop of the switch goes on.
C18_ReturnUnderCaseLabel ==
    /\ last.kind = "return" /\ status = "ok" /\ Top(blocks).kind = "switch"
    /\ last.ret.shrink = <<>> /\ ~last.ret.jump /\ Running

\* C19: the copy-down a return statement emits for a value of type T with size s,
\* the full scope size being F, writes all s bytes to the offset -(F + 2 * s) and is
\* followed by a stack shrink of s, for every T.
C19_ReturnCopiesWholeValue ==
    (last.kind = "return" /\ status = "ok" /\ last.ret.copy # <<>>) =>
        /\ last.ret.copy = <<-(DeclaredFrom(blocks, 1) + 2 * size(last.ret.type)),
                             size(last.ret.type)>>
        /\ last.ret.pop = size(last.ret.type)

\* A return of a vector compiled with a copy-down of 4 of its 12 bytes.
C19_VectorReturnCopiesFourBytes ==
    /\ last.kind = "return" /\ status = "ok"
    /\ TypeEq(last.ret.type, VECTOR) /\ size(last.ret.type) = 12
    /\ last.ret.copy # <<>> /\ last.ret.copy[2] = 4 /\ last.ret.pop = 12

(***************************************************************************)
(* Offsets of local variables                                              *)
(***************************************************************************)
\* The position in the declarations, from the k-th down, of the last one of the name.
RECURSIVE LastDeclared(_, _, _)
LastDeclared(declared, k, identifier) ==
    IF k = 0 THEN 0
    ELSE IF declared[k].identifier = identifier THEN k
    ELSE LastDeclared(declared, k - 1, identifier)

\* The bytes on the stack from the start of the slot of the innermost variable of
\* that name to the stack top, between statements: the variable, the locals declared
\* after it in its block and in the blocks inside, and the held switch value of every
\* switch entered after its block (-1: no block declares the name).
RECURSIVE BytesAbove(_, _, _, _)
BytesAbove(chain, i, identifier, above) ==
    IF i = 0 THEN -1
    ELSE IF LastDeclared(chain[i].declared, Len(chain[i].declared), identifier) > 0
    THEN above + SizesFrom(chain[i].declared,
                           LastDeclared(chain[i].declared, Len(chain[i].declared), identifier))
    ELSE BytesAbove(chain, i - 1, identifier,
                    above + SizesFrom(chain[i].declared, 1) + chain[i].held)

\* C20: the stack-pointer-relative offset emitted to read a local variable is minus
\* the number of bytes that lie on the stack between the start of its slot and the
\* stack top, the held value of every enclosing switch counted, whatever the switch
\* expression is.
C20_OffsetReachesSlot ==
    (/\ last.kind = "expression" /\ status = "ok" /\ Len(last.path) = 1
     /\ last.resolved.err = "none" /\ ~last.resolved.is_global)
        => last.resolved.offset = 0 - BytesAbove(blocks, Len(blocks), last.path[1], 0)

\* x of the function body read under a case label of `switch (geti())`: the switch
\* holds 4 bytes, its block counts 8, and the offset emitted is 4 bytes beyond the
\* slot of x.
C20_ReadUnderSwitchOnCall ==
    /\ last.kind = "expression" /\ status = "ok" /\ last.path = <<"x">>
    /\ Len(blocks) = 2 /\ blocks[1].temp_stack = 0 /\ Len(blocks[1].declared) = 1
    /\ blocks[2].kind = "switch" /\ blocks[2].held = 4 /\ blocks[2].temp_stack = 8
    /\ blocks[2].declared = <<>>
    /\ last.resolved.offset = 0 - 12

\* ---- C23
\* The include loop of CodeRoot.compile has come to its end without an exception.
ExpansionFinished == pc # "includes" /\ rstatus # "MissingIncludeError"

\* The objects of the list that the j-th expansion brought, in list order from k.
RECURSIVE BroughtBy(_, _)
BroughtBy(j, k) ==
    IF k > Len(objects) THEN <<>>
    ELSE (IF provenance.origin[k] = j THEN <<objects[k]>> ELSE <<>>) \o BroughtBy(j, k + 1)

\* C23: when include expansion finishes, no IncludeScript is left in the object
\* list, every expansion has contributed the objects of its file exactly once (its
\* own include directives being expanded in turn), and the objects of an included
\* file stand before every object of the file that included it, at any depth.
C23_IncludedBeforeIncluder ==
    ExpansionFinished =>
       /\ IncludePositions(objects) = {}
       /\ \A j \in 1..Len(included) :
             BroughtBy(j, 1) = OfKind(Library[included[j].name], {"global", "function"})
       /\ \A j \in 1..Len(included) : \A k, m \in 1..Len(objects) :
             (provenance.origin[k] = j /\ provenance.origin[m] = provenance.includer[j])
                => k < m

\* C23 witness: an include nested in an included file has been expanded, and the
\* list holds objects of the nested file, of the file that included it and of the
\* file being compiled.
C23_NestedIncludeExpanded ==
    /\ ExpansionFinished
    /\ \E j \in 1..Len(included) : \E k, m, n \in 1..Len(objects) :
          /\ provenance.includer[j] # 0
          /\ provenance.origin[k] = j
          /\ provenance.origin[m] = provenance.includer[j]
          /\ provenance.origin[n] = 0

C26_EveryCallTargetHasBody ==
    (pc = "done" /\ rstatus = "ok") =>
       \A k \in 1..Len(instructions) :
          instructions[k].ins_type = "JSR" =>
             /\ PositionOf(instructions[k].jump) > 0
             /\ (PositionOf(instructions[k].jump) + 1) \in BodyStarts(instructions[k].callee)

\* C26 witness: the compilation has returned without error, helper is a prototype
\* that was never defined, and the body of another function calls it.
C26_CalledPrototypeNeverDefined ==
    /\ pc = "done" /\ rstatus = "ok"
    /\ function_map["helper"].present /\ is_prototype(function_map["helper"])
    /\ BodyStarts("helper") = {}
    /\ \E k \in 1..Len(instructions) :
          /\ instructions[k].ins_type = "JSR" /\ instructions[k].callee = "helper"
          /\ instructions[k].body \in {"main", "StartingConditional"}

\* ---- C27
\* The definition compiled last is refused for a reason other than a call of the
\* function itself: the name already has a body, the signature differs from the
\* prototype, or the body calls another function that is not in function_map (which
\* a refused definition leaves as it was).
RefusedOtherwise ==
    \/ function_map[flast.name].present /\ ~is_prototype(function_map[flast.name])
    \/ /\ function_map[flast.name].present /\ is_prototype(function_map[flast.name])
       /\ ~is_matching_signature(flast.sig, function_map[flast.name].definition)
    \/ \E k \in 1..Len(flast.calls) :
          flast.calls[k] # flast.name /\ ~function_map[flast.calls[k]].present

\* C27: a definition of f whose body calls f compiles whenever the rest of the
\* definition is accepted, whether or not f was forward-declared.
C27_SelfCallCompiles ==
    (/\ flast.op = "define"
     /\ \E k \in 1..Len(flast.calls) : flast.calls[k] = flast.name
     /\ fstatus # "ok")
        => RefusedOtherwise

\* C27 witness: the definition of a function that was not forward-declared, whose
\* body is one call of the function itself, has raised CompileError.
C27_SelfCallWithoutPrototype ==
    /\ flast.op = "define" /\ flast.calls = <<flast.name>>
    /\ ~function_map[flast.name].present
    /\ fstatus = "CompileError"

\* A forward-declared function whose body calls the function itself has compiled.
C27_SelfCallWithPrototype ==
    /\ flast.op = "define" /\ flast.calls = <<flast.name>>
    /\ is_prototype(function_map[flast.name])
    /\ BodyStarts(flast.name) # {}
    /\ fstatus = "ok"

\* ---- C30
\* The declaration the call compiled last was compiled against.
Callee == function_map[last.call.name].definition

\* The k-th argument written compiles in the block and has the type of the k-th
\* parameter (a statement that raises leaves the chain as it was).
ArgumentFits(k) ==
    Bind(Expression_compile(blocks, last.before, last.call.args[k]), LAMBDA r :
       r.err = "none" /\ TypeEq(r.type, Callee.parameters[k]))

RECURSIVE ParameterBytes(_, _)
ParameterBytes(def, k) ==
    IF k > Len(def.parameters) THEN 0
    ELSE size(def.parameters[k]) + ParameterBytes(def, k + 1)

\* C30: a call of a script function pushes no more argument bytes than its
\* parameters take; with more arguments than parameters it compiles exactly when
\* the arguments that have a parameter compile and fit, whatever the surplus ones
\* are; a call of an engine routine with more arguments than parameters raises
\* CompileError.
C30_SurplusArguments ==
    (last.kind = "expression" /\ last.call # NoCall) =>
        IF last.call.engine
        THEN Len(last.call.args) > Len(EngineFunctions[last.call.name].parameters)
                => status = "CompileError"
        ELSE /\ last.call.pushed <= ParameterBytes(Callee, 1)
             /\ Len(last.call.args) > Len(Callee.parameters) =>
                   /\ (status = "ok") <=> \A k \in 1..Len(Callee.parameters) : ArgumentFits(k)
                   /\ status = "ok" => last.call.pushed = ParameterBytes(Callee, 1)

\* C30 witness: put(int) was called with an int and then a float or an identifier
\* that no scope declares, and the statement compiled.
C30_SurplusArgumentIgnored ==
    /\ last.kind = "expression" /\ status = "ok"
    /\ last.call.name = "put" /\ Len(last.call.args) = 2
    /\ last.call.pushed = 4
    /\ \/ last.call.args[2] = FloatExpression
       \/ /\ last.call.args[2] = X
          /\ Expression_compile(blocks, last.before, X).err # "none"

\* Abs(int) was called with two ints and raised CompileError.
C30_EngineSurplusRefused ==
    /\ last.kind = "expression" /\ status = "CompileError"
    /\ last.call.engine /\ last.call.name = "Abs"
    /\ last.call.args = <<IntExpression, IntExpression>>

\* ---- C28
\* C28: the compile of an expression that returns the type T changes the
\* temp_stack of the block by 0 or by size(T).
C28_DeltaIsZeroOrSize ==
    (last.kind = "expression" /\ last.value.err = "none") =>
        last.value.delta \in {0, size(last.value.type)}

\* C28 witness: ActionDoCommand(geti()) compiled, returned void and left the
\* temp_stack four bytes higher.
C28_ActionArgumentLeftOnTempStack ==
    /\ last.kind = "expression" /\ last.value.err = "none"
    /\ last.call.engine /\ last.call.name = "ActionDoCommand" /\ last.call.args = <<Geti>>
    /\ TypeEq(last.value.type, VOID) /\ last.value.delta = 4

\* The classes of expression other than an engine call with an action argument keep
\* to the rule: a literal and a read leave temp_stack alone, a call, an operator and
\* an assignment add the size of their type.
C28_DeltaOutsideActionArguments ==
    (/\ last.kind = "expression" /\ last.value.err = "none"
     /\ ~(last.call.engine /\ last.call.name = "ActionDoCommand"))
        => last.value.delta \in {0, size(last.value.type)}

(***************************************************************************)
(* The instructions compiled for a function body, and their execution      *)
(***************************************************************************)
\* A statement of the body: its class and the statements (or, for a switch, the
\* switch blocks) it holds.  Conditions, switch expressions, case labels, the
\* initial and the iteration of a for loop and expression statements are int
\* literals; a declaration is `int x;`; the function returns void.
Statement(kind, body) == [kind |-> kind, body |-> body]

\* An instruction object is named by the statement (its path of positions from the
\* body down) and the role it was created for.
Label(at, role) == <<at, role>>
NoLabel == <<>>

\* What an emitted instruction was emitted for: the statement, the part of it, and
\* the class of the statement (for a break or continue: of the statement whose label
\* it jumps to).
Mark(at, role, of) == [at |-> at, role |-> role, of |-> of]

\* An emitted instruction: type, the stack argument (the MOVSP size), the
\* instruction it jumps to, and the label it is itself.
Ins(t, arg, jump, label, mark) ==
    [ins_type |-> t, arg |-> arg, jump |-> jump, label |-> label, mark |-> mark]

\* return_instruction, break_instruction and continue_instruction of a compile call,
\* with the class of statement that owns each (NoLabel: None).
Targets(ret, brk, brk_of, cont, cont_of) ==
    [ret |-> ret, brk |-> brk, brk_of |-> brk_of, cont |-> cont, cont_of |-> cont_of]

\* What a compile call leaves: the chain of blocks, the instructions added, the
\* error raised, and whether the statement loop of a block ended at a return.
Code(chain, ops, err, returned) ==
    [chain |-> chain, ops |-> ops, err |-> err, returned |-> returned]

\* An int literal compiled as the given part of a statement.
IntExpression_emit(at, role, of) == <<Ins("CONSTI", 0, NoLabel, NoLabel, Mark(at, role, of))>>

RECURSIVE Statement_emit(_, _, _, _)
RECURSIVE Statements_emit(_, _, _, _, _, _)
RECURSIVE SwitchBlocks_emit(_, _, _, _, _)
RECURSIVE Dispatch_emit(_, _, _)

\* CodeBlock.compile of a block whose scope holds `scope` already (the parameters of
\* a function body): the statements, then the unwind of the block's own scope unless
\* the loop was left at a return statement.
CodeBlock_emit(chain, scope, statements, at, t) ==
    Bind(Statements_emit(Append(chain, [CodeBlock("block", 0, 0) EXCEPT !.scope = scope]),
                         statements, 1, at, t, TRUE),
         LAMBDA r :
            IF r.err # "none" \/ r.returned THEN Code(chain, r.ops, r.err, FALSE)
            ELSE Code(chain,
                      r.ops \o <<Ins("MOVSP", -scope_size(Top(r.chain)), NoLabel, NoLabel,
                                     Mark(at, "unwind", "block"))>>,
                      "none", FALSE))

\* `for statement in ...: statement.compile(...)`, from the k-th statement, in the
\* last block of the chain.  in_block: the loop is that of CodeBlock.compile, which
\* treats a ReturnStatement itself: scope unwind, jump to the return instruction,
\* and nothing after it is compiled.
Statements_emit(chain, statements, k, at, t, in_block) ==
    IF k > Len(statements) THEN Code(chain, <<>>, "none", FALSE)
    ELSE IF in_block /\ statements[k].kind = "return"
    THEN Code(chain,
              <<Ins("MOVSP", -full_scope_size(chain, Len(chain)), NoLabel, NoLabel,
                    Mark(Append(at, k), "return", "return")),
                Ins("JMP", 0, t.ret, NoLabel, Mark(Append(at, k), "return", "return"))>>,
              "none", TRUE)
    ELSE Bind(Statement_emit(chain, statements[k], Append(at, k), t), LAMBDA s :
            IF s.err # "none" THEN s
            ELSE Bind(Statements_emit(s.chain, statements, k + 1, at, t, in_block),
                      LAMBDA rest :
                         Code(rest.chain, s.ops \o rest.ops, rest.err, rest.returned)))

\* DeclarationStatement.compile of `int x;`
DeclarationStatement_emit(chain, at) ==
    Code([chain EXCEPT ![Len(chain)].scope = add_scoped(@, ScopedValue("x", INT, FALSE))],
         <<Ins("RSADDI", 0, NoLabel, NoLabel, Mark(at, "declare", "declare"))>>,
         "none", FALSE)

\* ExpressionStatement.compile of an int literal: the value, then MOVSP over it.
ExpressionStatement_emit(chain, at) ==
    Code(chain,
         IntExpression_emit(at, "expression", "expression")
            \o <<Ins("MOVSP", -4, NoLabel, NoLabel, Mark(at, "expression", "expression"))>>,
         "none", FALSE)

\* BreakStatement.compile
BreakStatement_emit(chain, at, t) ==
    IF t.brk = NoLabel THEN Code(chain, <<>>, "CompileError", FALSE)
    ELSE Code(chain,
              <<Ins("MOVSP", -break_scope_size(chain, Len(chain)), NoLabel, NoLabel,
                    Mark(at, "break", t.brk_of)),
                Ins("JMP", 0, t.brk, NoLabel, Mark(at, "break", t.brk_of))>>,
              "none", FALSE)

\* ContinueStatement.compile
ContinueStatement_emit(chain, at, t) ==
    IF t.cont = NoLabel THEN Code(chain, <<>>, "CompileError", FALSE)
    ELSE Code(chain,
              <<Ins("MOVSP", -break_scope_size(chain, Len(chain)), NoLabel, NoLabel,
                    Mark(at, "continue", t.cont_of)),
                Ins("JMP", 0, t.cont, NoLabel, Mark(at, "continue", t.cont_of))>>,
              "none", FALSE)

\* ConditionalBlock.compile of `if (1) { ... }`: jump_tos holds two instructions.
ConditionalBlock_emit(chain, st, at, t) ==
    Bind(CodeBlock_emit(chain, <<>>, st.body, at, t), LAMBDA b :
       Code(chain,
            IntExpression_emit(at, "condition", "if")
               \o <<Ins("JZ", 0, Label(at, "jump_tos[0]"), NoLabel, Mark(at, "condition", "if"))>>
               \o b.ops
               \o <<Ins("JMP", 0, Label(at, "jump_tos[-1]"), NoLabel, Mark(at, "back", "if")),
                    Ins("NOP", 0, NoLabel, Label(at, "jump_tos[0]"), Mark(at, "label", "if")),
                    Ins("NOP", 0, NoLabel, Label(at, "jump_tos[-1]"), Mark(at, "label", "if"))>>,
            b.err, FALSE))

\* WhileLoopBlock.compile
WhileLoopBlock_emit(chain, st, at, t) ==
    Bind(CodeBlock_emit(mark_break_scope(chain), <<>>, st.body, at,
                        Targets(t.ret, Label(at, "loopend"), "while",
                                Label(at, "loopstart"), "while")),
         LAMBDA b :
            Code(b.chain,
                 <<Ins("NOP", 0, NoLabel, Label(at, "loopstart"), Mark(at, "label", "while"))>>
                    \o IntExpression_emit(at, "condition", "while")
                    \o <<Ins("JZ", 0, Label(at, "loopend"), NoLabel, Mark(at, "condition", "while"))>>
                    \o b.ops
                    \o <<Ins("JMP", 0, Label(at, "loopstart"), NoLabel, Mark(at, "back", "while")),
                         Ins("NOP", 0, NoLabel, Label(at, "loopend"), Mark(at, "label", "while"))>>,
                 b.err, FALSE))

\* DoWhileLoopBlock.compile
DoWhileLoopBlock_emit(chain, st, at, t) ==
    Bind(CodeBlock_emit(mark_break_scope(chain), <<>>, st.body, at,
                        Targets(t.ret, Label(at, "loopend"), "do",
                                Label(at, "conditionstart"), "do")),
         LAMBDA b :
            Code(b.chain,
                 <<Ins("NOP", 0, NoLabel, Label(at, "loopstart"), Mark(at, "label", "do"))>>
                    \o b.ops
                    \o <<Ins("NOP", 0, NoLabel, Label(at, "conditionstart"), Mark(at, "label", "do"))>>
                    \o IntExpression_emit(at, "condition", "do")
                    \o <<Ins("JZ", 0, Label(at, "loopend"), NoLabel, Mark(at, "condition", "do")),
                         Ins("JMP", 0, Label(at, "loopstart"), NoLabel, Mark(at, "back", "do")),
                         Ins("NOP", 0, NoLabel, Label(at, "loopend"), Mark(at, "label", "do"))>>,
                 b.err, FALSE))

\* A mutant of ForLoopBlock_emit: continue_instruction is loopstart.
ForLoopBlock_continue_at_start(chain, st, at, t) ==
    Bind(CodeBlock_emit(mark_break_scope(chain), <<>>, st.body, at,
                        Targets(t.ret, Label(at, "loopend"), "for",
                                Label(at, "loopstart"), "for")),
         LAMBDA b :
            Code(b.chain,
                 IntExpression_emit(at, "initial", "for")
                    \o <<Ins("MOVSP", -4, NoLabel, NoLabel, Mark(at, "initial", "for")),
                         Ins("NOP", 0, NoLabel, Label(at, "loopstart"), Mark(at, "label", "for"))>>
                    \o IntExpression_emit(at, "condition", "for")
                    \o <<Ins("JZ", 0, Label(at, "loopend"), NoLabel, Mark(at, "condition", "for"))>>
                    \o b.ops
                    \o <<Ins("NOP", 0, NoLabel, Label(at, "updatestart"), Mark(at, "label", "for"))>>
                    \o IntExpression_emit(at, "update", "for")
                    \o <<Ins("MOVSP", -4, NoLabel, NoLabel, Mark(at, "update", "for")),
                         Ins("JMP", 0, Label(at, "loopstart"), NoLabel, Mark(at, "back", "for")),
                         Ins("NOP", 0, NoLabel, Label(at, "loopend"), Mark(at, "label", "for"))>>,
                 b.err, FALSE))

\* ForLoopBlock.compile, the initial and the iteration being expressions
ForLoopBlock_emit(chain, st, at, t) ==
    Bind(CodeBlock_emit(mark_break_scope(chain), <<>>, st.body, at,
                        Targets(t.ret, Label(at, "loopend"), "for",
                                Label(at, "updatestart"), "for")),
         LAMBDA b :
            Code(b.chain,
                 IntExpression_emit(at, "initial", "for")
                    \o <<Ins("MOVSP", -4, NoLabel, NoLabel, Mark(at, "initial", "for")),
                         Ins("NOP", 0, NoLabel, Label(at, "loopstart"), Mark(at, "label", "for"))>>
                    \o IntExpression_emit(at, "condition", "for")
                    \o <<Ins("JZ", 0, Label(at, "loopend"), NoLabel, Mark(at, "condition", "for"))>>
                    \o b.ops
                    \o <<Ins("NOP", 0, NoLabel, Label(at, "updatestart"), Mark(at, "label", "for"))>>
                    \o IntExpression_emit(at, "update", "for")
                    \o <<Ins("MOVSP", -4, NoLabel, NoLabel, Mark(at, "update", "for")),
                         Ins("JMP", 0, Label(at, "loopstart"), NoLabel, Mark(at, "back", "for")),
                         Ins("NOP", 0, NoLabel, Label(at, "loopend"), Mark(at, "label", "for"))>>,
                 b.err, FALSE))

\* The switch blocks compiled into tempncs, from the j-th: the start instruction of
\* the block, then each of its statements compiled in real_block with end_of_switch
\* as break instruction and no continue instruction.
SwitchBlocks_emit(chain, switchblocks, j, at, t) ==
    IF j > Len(switchblocks) THEN Code(chain, <<>>, "none", FALSE)
    ELSE Bind(Statements_emit(chain, switchblocks[j].body, 1, Append(at, j), t, FALSE),
              LAMBDA s :
                 IF s.err # "none" THEN s
                 ELSE Bind(SwitchBlocks_emit(s.chain, switchblocks, j + 1, at, t), LAMBDA rest :
                         Code(rest.chain,
                              <<Ins("NOP", 0, NoLabel, Label(Append(at, j), "switchblock_start"),
                                    Mark(Append(at, j), "label", "switch"))>>
                                 \o s.ops \o rest.ops,
                              rest.err, FALSE)))

\* The dispatch of a switch, from the j-th block, each block with one label: the
\* copy of the switch value, then ExpressionSwitchLabel.compile (literal, equality,
\* JNZ) or DefaultSwitchLabel.compile (JMP).
Dispatch_emit(switchblocks, j, at) ==
    IF j > Len(switchblocks) THEN <<>>
    ELSE <<Ins("CPTOPSP", 4, NoLabel, NoLabel, Mark(at, "dispatch", "switch"))>>
            \o (IF switchblocks[j].kind = "case"
                THEN IntExpression_emit(at, "dispatch", "switch")
                        \o <<Ins("EQUALII", 0, NoLabel, NoLabel, Mark(at, "dispatch", "switch")),
                             Ins("JNZ", 0, Label(Append(at, j), "switchblock_start"), NoLabel,
                                 Mark(at, "dispatch", "switch"))>>
                ELSE <<Ins("JMP", 0, Label(Append(at, j), "switchblock_start"), NoLabel,
                           Mark(at, "default", "switch"))>>)
            \o Dispatch_emit(switchblocks, j + 1, at)

\* SwitchStatement.compile
SwitchStatement_emit(chain, st, at, t) ==
    Bind(SwitchBlocks_emit(Append(mark_break_scope(chain), CodeBlock("switch", 0, 0)),
                           st.body, 1, at,
                           Targets(t.ret, Label(at, "end_of_switch"), "switch", NoLabel, "none")),
         LAMBDA b :
            Code(mark_break_scope(chain),
                 IntExpression_emit(at, "enter", "switch")
                    \o Dispatch_emit(st.body, 1, at)
                    \o <<Ins("JMP", 0, Label(at, "end_of_switch"), NoLabel,
                             Mark(at, "nomatch", "switch"))>>
                    \o b.ops
                    \o <<Ins("NOP", 0, NoLabel, Label(at, "end_of_switch"),
                             Mark(at, "label", "switch")),
                         Ins("MOVSP", -4, NoLabel, NoLabel, Mark(at, "pop", "switch"))>>,
                 b.err, FALSE))

\* statement.compile(ncs, root, block, return_instruction, break_instruction,
\* continue_instruction) in the last block of the chain.  ReturnStatement.compile of
\* `return;` emits nothing by itself.
Statement_emit(chain, st, at, t) ==
    CASE st.kind = "declare" -> DeclarationStatement_emit(chain, at)
      [] st.kind = "expression" -> ExpressionStatement_emit(chain, at)
      [] st.kind = "break" -> BreakStatement_emit(chain, at, t)
      [] st.kind = "continue" -> ContinueStatement_emit(chain, at, t)
      [] st.kind = "return" -> Code(chain, <<>>, "none", FALSE)
      [] st.kind = "if" -> ConditionalBlock_emit(chain, st, at, t)
      [] st.kind = "while" -> WhileLoopBlock_emit(chain, st, at, t)
      [] st.kind = "do" -> DoWhileLoopBlock_emit(chain, st, at, t)
      [] st.kind = "for" -> ForLoopBlock_emit(chain, st, at, t)
      [] st.kind = "scoped" -> CodeBlock_emit(chain, <<>>, st.body, at, t)
      [] st.kind = "switch" -> SwitchStatement_emit(chain, st, at, t)

\* The identifier of the k-th parameter.
ParameterName(k) == <<"p1", "p2", "p3">>[k]

\* A mutant of ParameterScope: the parameters stand in the scope in the order they
\* are written.
ParameterScopeForward(parameters) ==
    [k \in 1..Len(parameters) |-> ScopedValue(ParameterName(k), parameters[k], FALSE)]

\* The parameters of a function as FunctionDefinition.__init__ leaves them in the
\* scope of the body: block.add_scoped for each, in order.
RECURSIVE ParameterScope(_)
ParameterScope(parameters) ==
    IF parameters = <<>> THEN <<>>
    ELSE add_scoped(ParameterScope(SubSeq(parameters, 1, Len(parameters) - 1)),
                    ScopedValue(ParameterName(Len(parameters)),
                                parameters[Len(parameters)], FALSE))

\* FunctionDefinition.compile of a function that has no prototype: the start
\* instruction, the body compiled with retn as return instruction, then retn.
FunctionDefinition_emit(n, statements) ==
    Bind(CodeBlock_emit(<<>>, ParameterScope([k \in 1..n |-> INT]), statements, <<>>,
                        Targets(Label(<<>>, "retn"), NoLabel, "none", NoLabel, "none")),
         LAMBDA b :
            Code(<<>>,
                 <<Ins("NOP", 0, NoLabel, Label(<<>>, "function_start"),
                       Mark(<<>>, "label", "function"))>>
                    \o b.ops
                    \o <<Ins("RETN", 0, NoLabel, Label(<<>>, "retn"),
                             Mark(<<>>, "retn", "function"))>>,
                 b.err, FALSE))

\* ---- The stack machine
\* How far the stack pointer may be from its value at function entry before the
\* run is cut (a loop that leaks the stack would go on growing it).
StackLimit == 16
\* How many parts of a loop are recorded after a break or continue.
MaxSeen == 2

\* By how much an instruction moves the stack pointer: RSADDI and CONSTI push four
\* bytes, CPTOPSP copies arg bytes to the top, EQUALII replaces two ints by one, JZ
\* and JNZ take the int they test, MOVSP adds its (negative) argument.
StackEffect(i) ==
    CASE i.ins_type \in {"RSADDI", "CONSTI"} -> 4
      [] i.ins_type = "CPTOPSP" -> i.arg
      [] i.ins_type = "EQUALII" -> -4
      [] i.ins_type \in {"JZ", "JNZ"} -> -4
      [] i.ins_type = "MOVSP" -> i.arg
      [] OTHER -> 0

\* The position in the list of the instruction object a jump names.
JumpTarget(ops, label) == CHOOSE k \in 1..Len(ops) : ops[k].label = label

\* The statement `at` is the statement `loop` or lies inside it.
Within(loop, at) == Len(at) >= Len(loop) /\ SubSeq(at, 1, Len(loop)) = loop

\* What is recorded of a run after a break or continue has jumped: which of the
\* two, the loop it belongs to and the class of the loop.
After(kind, loop, of) == [kind |-> kind, loop |-> loop, of |-> of]
NoAfter == After("none", <<>>, "none")
NoMark == Mark(<<>>, "none", "none")

\* The part of the loop an instruction belongs to: a part of the loop statement
\* itself, or its body.
PartOf(loop, i) == IF i.mark.at = loop THEN i.mark.role ELSE "body"

\* The parts of the loop that ran since the jump, each time a new part begins.
Extend(seen, part) ==
    IF Len(seen) >= MaxSeen \/ (seen # <<>> /\ seen[Len(seen)] = part) THEN seen
    ELSE Append(seen, part)

\* The machine before the first instruction of a function called with n int
\* arguments: the stack pointer is counted from the caller's frame, so the
\* arguments take it to 4 * n.
Machine(pc0, sp, halted, last_mark, base, after, seen) ==
    [pc |-> pc0, sp |-> sp, halted |-> halted, last |-> last_mark, base |-> base,
     after |-> after, seen |-> seen]

\* The function given to the compiler: the number of its int parameters and the
\* statements of its body; ops and err are what compilation made of it.
Function_of(n, statements) ==
    [parameters |-> n, statements |-> statements, ops |-> <<>>, err |-> "none",
     compiled |-> FALSE]

\* FunctionDefinition.compile
FunctionDefinition_compile_body ==
    /\ emitted # <<>> /\ ~emitted.compiled
    /\ Bind(FunctionDefinition_emit(emitted.parameters, emitted.statements), LAMBDA c :
          emitted' = [emitted EXCEPT !.ops = c.ops, !.err = c.err, !.compiled = TRUE])
    /\ machine' = Machine(1, 4 * emitted.parameters, FALSE, NoMark, 0, NoAfter, <<>>)
    /\ UNCHANGED <<structVars, funcVars, rootVars, blockVars>>

\* The pc after the instruction: a jump goes to its target, a conditional jump goes
\* there or falls through.
NextPc(i, taken) ==
    IF i.ins_type = "JMP" \/ (i.ins_type \in {"JZ", "JNZ"} /\ taken)
    THEN JumpTarget(emitted.ops, i.jump)
    ELSE machine.pc + 1

\* What is recorded once the instruction has run.
AfterOf(i) ==
    IF i.ins_type = "JMP" /\ i.mark.role \in {"break", "continue"}
         /\ i.mark.of \in {"while", "do", "for"}
    THEN After(i.mark.role, i.jump[1], i.mark.of)
    ELSE machine.after
SeenOf(i) ==
    IF i.ins_type = "JMP" /\ i.mark.role \in {"break", "continue"}
         /\ i.mark.of \in {"while", "do", "for"}
    THEN <<>>
    ELSE IF machine.after.kind # "none" /\ i.ins_type \notin {"NOP", "JMP"}
              /\ Within(machine.after.loop, i.mark.at)
    THEN Extend(machine.seen, PartOf(machine.after.loop, i))
    ELSE machine.seen

\* The machine runs the instruction at pc; RETN ends the run.
Execute ==
    /\ emitted # <<>> /\ emitted.compiled /\ emitted.err = "none"
    /\ ~machine.halted
    /\ machine.sp <= StackLimit /\ machine.sp >= -StackLimit
    /\ \E taken \in BOOLEAN :
          Bind(emitted.ops[machine.pc], LAMBDA i :
             /\ i.ins_type \notin {"JZ", "JNZ"} => taken
             /\ machine' = Machine(IF i.ins_type = "RETN" THEN machine.pc ELSE NextPc(i, taken),
                                   machine.sp + StackEffect(i),
                                   i.ins_type = "RETN",
                                   i.mark,
                                   IF i.mark.role = "enter" THEN machine.sp ELSE machine.base,
                                   AfterOf(i), SeenOf(i)))
    /\ UNCHANGED emitted
    /\ UNCHANGED <<structVars, funcVars, rootVars, blockVars>>

NextRun == FunctionDefinition_compile_body \/ Execute

\* ---- SpecSwitch: a body that is a switch statement, after a declaration or not
SwitchBodyStatements == {Statement("declare", <<>>), Statement("expression", <<>>),
                         Statement("break", <<>>)}
MaxCaseStatements == 2
MaxSwitchBlocks == 2
SwitchBodies == UNION {[1..n -> SwitchBodyStatements] : n \in 0..MaxCaseStatements}
SwitchBlocks == {Statement(kind, body) : kind \in {"case", "default"}, body \in SwitchBodies}
SwitchStatements ==
    {Statement("switch", switchblocks) :
        switchblocks \in {b \in UNION {[1..n -> SwitchBlocks] : n \in 1..MaxSwitchBlocks} :
                       Cardinality({j \in 1..Len(b) : b[j].kind = "default"}) <= 1}}
SwitchPrograms ==
    {pre \o <<st>> : pre \in {<<>>, <<Statement("declare", <<>>)>>}, st \in SwitchStatements}

InitRunIdle ==
    /\ IdleStruct /\ IdleFunc /\ IdleRoot
    /\ blocks = <<>> /\ status = "idle" /\ last = <<>>
    /\ machine = <<>>

InitSwitch ==
    /\ InitRunIdle
    /\ emitted \in {Function_of(0, statements) : statements \in SwitchPrograms}

SpecSwitch == InitSwitch /\ [][NextRun]_vars

\* ---- C21
\* C21: on every path through a compiled switch statement, when the instruction
\* that pops the switch value has run the stack pointer is what it was when the
\* switch began.
C21_SwitchLeavesStackAsFound ==
    (machine # <<>> /\ machine.last.role = "pop" /\ machine.last.of = "switch")
        => machine.sp = machine.base

\* C21 witness: a switch with one case label and `int x;` below it has come to its
\* end with the stack pointer four bytes above where the switch began.
C21_CaseLocalLeftOnStack ==
    /\ machine # <<>> /\ machine.last.role = "pop" /\ machine.last.of = "switch"
    /\ emitted.statements =
          <<Statement("switch", <<Statement("case", <<Statement("declare", <<>>)>>)>>)>>
    /\ machine.sp = machine.base + 4

\* ---- SpecLoop: a body that is one loop
MaxLoopStatements == 3
LoopBodyStatements ==
    {Statement("declare", <<>>), Statement("expression", <<>>),
     Statement("break", <<>>), Statement("continue", <<>>),
     Statement("if", <<Statement("continue", <<>>)>>),
     Statement("if", <<Statement("break", <<>>)>>)}
LoopBodies == UNION {[1..n -> LoopBodyStatements] : n \in 0..MaxLoopStatements}
LoopPrograms == {<<Statement(kind, body)>> : kind \in {"while", "do", "for"}, body \in LoopBodies}

InitLoop ==
    /\ InitRunIdle
    /\ emitted \in {Function_of(0, statements) : statements \in LoopPrograms}

SpecLoop == InitLoop /\ [][NextRun]_vars

\* ---- C22
\* The position of the backward jump of the loop.
BackJump(loop, of) ==
    CHOOSE k \in 1..Len(emitted.ops) : emitted.ops[k].mark = Mark(loop, "back", of)

\* C22: after a continue has jumped, the part of its loop that runs next is the
\* condition in a while and in a do-while loop, and the update followed by the
\* condition in a for loop; after a break has jumped, the pc is beyond the backward
\* jump of the loop and no condition, update or body code of the loop runs any more.
C22_ContinueThenConditionBreakLeaves ==
    machine # <<>> =>
       /\ (machine.after.kind = "continue" /\ machine.seen # <<>>) =>
             IF machine.after.of = "for"
             THEN /\ machine.seen[1] = "update"
                  /\ Len(machine.seen) >= 2 => machine.seen[2] = "condition"
             ELSE machine.seen[1] = "condition"
       /\ machine.after.kind = "break" =>
             /\ machine.seen = <<>>
             /\ machine.pc > BackJump(machine.after.loop, machine.after.of)

\* C22 witness: a continue inside an if inside a for loop has jumped, and since
\* then the update and after it the condition of the loop have run.
C22_ForContinueRunsUpdate ==
    /\ machine # <<>>
    /\ machine.after = After("continue", <<1>>, "for")
    /\ machine.seen = <<"update", "condition">>
    /\ \E k \in 1..Len(emitted.statements[1].body) :
          emitted.statements[1].body[k] = Statement("if", <<Statement("continue", <<>>)>>)

\* A break in a do-while loop has jumped and the function has returned.
C22_BreakLeftDoWhile ==
    /\ machine # <<>> /\ machine.halted
    /\ machine.after = After("break", <<1>>, "do")

\* ---- SpecReturn: bodies with return statements at every nesting, in a function of
\* no or one int parameter
MaxBodyStatements == 3
MaxParameters == 1
ReturnVoid == Statement("return", <<>>)
ReturnBodyStatements ==
    {Statement("declare", <<>>), Statement("expression", <<>>), ReturnVoid,
     Statement("if", <<ReturnVoid>>),
     Statement("if", <<Statement("declare", <<>>), ReturnVoid>>),
     Statement("while", <<Statement("declare", <<>>), ReturnVoid>>),
     Statement("scoped", <<Statement("declare", <<>>), Statement("scoped", <<ReturnVoid>>)>>),
     Statement("switch", <<Statement("case", <<ReturnVoid>>)>>),
     Statement("switch", <<Statement("case", <<Statement("if", <<ReturnVoid>>)>>)>>),
     Statement("switch", <<Statement("case", <<Statement("expression", <<>>),
                                                 Statement("break", <<>>)>>)>>)}
ReturnPrograms == UNION {[1..n -> ReturnBodyStatements] : n \in 0..MaxBodyStatements}

InitReturn ==
    /\ InitRunIdle
    /\ emitted \in {Function_of(n, statements) :
                       n \in 0..MaxParameters, statements \in ReturnPrograms}

SpecReturn == InitReturn /\ [][NextRun]_vars

\* ---- C25
\* C25: when the shared RETN of a function has run, by whatever path, everything
\* pushed since the call (the arguments included) is off the stack: the stack
\* pointer is back at the caller's frame.
C25_StackEmptyAtRetn ==
    (machine # <<>> /\ machine.halted) => machine.sp = 0

\* C25 witness: the body is a switch whose case holds `if (c) return;`; the return
\* has run and RETN is reached with the switch value still on the stack.
C25_ReturnInsideSwitchLeavesValue ==
    /\ machine # <<>> /\ machine.halted
    /\ emitted.parameters = 0
    /\ emitted.statements =
          <<Statement("switch", <<Statement("case", <<Statement("if", <<ReturnVoid>>)>>)>>)>>
    /\ machine.sp = 4

\* A body without a switch: RETN is reached with the stack pointer at the caller's
\* frame on every path.
RECURSIVE HasSwitch(_)
HasSwitch(statements) ==
    \E k \in 1..Len(statements) :
        statements[k].kind = "switch" \/ HasSwitch(statements[k].body)
C25_StackEmptyWithoutSwitch ==
    (machine # <<>> /\ machine.halted /\ ~HasSwitch(emitted.statements)) => machine.sp = 0

\* ---- SpecParams: the body of a function f with up to two parameters, in which
\* the parameters are read and f is called
ParameterTypes == {INT, FLOAT, VECTOR}
ParameterLists == UNION {[1..n -> ParameterTypes] : n \in 0..MaxArgs}
P1 == IdentifierExpression("p1")
P2 == IdentifierExpression("p2")
ParameterArguments == {IntExpression, P1, P2}
ParameterCalls ==
    {FunctionCallExpression("f", args) :
        args \in UNION {[1..n -> ParameterArguments] : n \in 0..MaxArgs}}

\* f is registered by its prototype, and FunctionDefinition.__init__ has put the
\* parameters in the scope of the body.
InitParams ==
    /\ IdleRoot
    /\ struct_map = BlockStructs /\ last_size = NoQuery /\ registered = 0
    /\ \E return_type \in {VOID, INT, VECTOR}, parameters \in ParameterLists :
          /\ function_map =
                [f \in {"f"} |->
                    FunctionReference(1, TRUE,
                       FunctionForwardDeclaration(return_type, parameters,
                                                  [k \in 1..Len(parameters) |-> NoValue]))]
          /\ blocks = <<[CodeBlock("function", 0, 0) EXCEPT
                            !.scope = ParameterScope(parameters)]>>
    /\ instructions = <<>> /\ next_id = 0
    /\ fstatus = "idle" /\ compiled = 0 /\ flast = <<>>
    /\ status = "ok" /\ last = NoLast
    /\ IdleRun

NextParams ==
    \/ \E d \in BlockDeclarations :
          Locals(blocks) < BlockLocals /\ DeclarationStatement_compile(d)
    \/ \E e \in {P1, P2} \cup ParameterCalls : ExpressionStatement(e)
    \/ ReturnStatement(function_map["f"].definition.return_type, NoValue)

SpecParams == InitParams /\ [][NextParams]_vars

\* ---- C29
\* The bytes of the parameters from the i-th to the last.
RECURSIVE BytesFrom(_, _)
BytesFrom(parameters, i) ==
    IF i > Len(parameters) THEN 0 ELSE size(parameters[i]) + BytesFrom(parameters, i + 1)

\* The bytes of the locals declared in the body so far.
LocalBytes == SizesFrom(blocks[1].declared, 1)

\* C29: in the body of f, before any local is declared, the parameter pi resolves
\* to the offset minus the bytes of pi..pn and to its type; a call of f that
\* compiles has pushed exactly the bytes of the parameters, which is what the body
\* of f unwinds for them at its end and at a return, and has raised the caller's
\* temp_stack by the size of the return type.
C29_ParametersWhereArgumentsAre ==
    Bind(function_map["f"].definition, LAMBDA f :
       /\ \A i \in 1..Len(f.parameters) :
             (/\ last.kind = "expression" /\ last.path = <<ParameterName(i)>>
              /\ Len(blocks) = 1 /\ blocks[1].declared = <<>> /\ last.before = 0)
                => /\ last.resolved.err = "none"
                   /\ last.resolved.offset = -BytesFrom(f.parameters, i)
                   /\ TypeEq(last.resolved.datatype, f.parameters[i])
       /\ (last.kind = "expression" /\ last.call # NoCall /\ status = "ok")
             => /\ last.call.pushed = BytesFrom(f.parameters, 1)
                /\ last.call.pushed = scope_size(blocks[1]) - LocalBytes
                /\ last.value.delta = return_type_size(f.return_type)
       /\ (last.kind = "return" /\ status = "ok" /\ last.ret.shrink # <<>>)
             => last.ret.shrink[1] - LocalBytes = BytesFrom(f.parameters, 1))

\* C29 witness: f(int p1, vector p2) calls f(p1, p2): 16 bytes are pushed, the
\* scope of the body holds 16 bytes for the parameters, and the call leaves the size
\* of the return type on the caller's temp_stack.
C29_CallWithMixedSizes ==
    /\ last.kind = "expression" /\ status = "ok"
    /\ function_map["f"].definition.parameters = <<INT, VECTOR>>
    /\ last.call.name = "f" /\ last.call.args = <<P1, P2>>
    /\ last.call.pushed = 16 /\ scope_size(blocks[1]) - LocalBytes = 16
    /\ last.value.delta = return_type_size(function_map["f"].definition.return_type)

\* p1 of f(int p1, vector p2) was read at the start of the body: offset -16.
C29_FirstParameterDeepest ==
    /\ last.kind = "expression" /\ status = "ok" /\ last.path = <<"p1">>
    /\ function_map["f"].definition.parameters = <<INT, VECTOR>>
    /\ blocks[1].declared = <<>> /\ last.resolved.offset = -16
====
